---- MODULE Spec2Model ----
(***************************************************************************)
(* imap-mini-mcp: the connection manager (ImapClient), the folder lock     *)
(* discipline of the IMAP operations and the draft replace protocol.       *)
(*                                                                         *)
(* Granularity: one action runs a caller from the completion of one        *)
(* network round trip (an await on the transport) to the issue of the      *)
(* next one.  The code between two awaits is synchronous in the event      *)
(* loop, so it is one atomic step.  Callers are concurrent tool calls of   *)
(* the one process-wide ImapClient.                                        *)
(***************************************************************************)
EXTENDS Integers, Sequences, FiniteSets, TLC

\* ------------------------------------------------------------------ bounds
MaxSessions == 3    \* transports (ImapFlow objects) ever created, connection manager runs
MaxCalls == 2       \* operations started over all callers, connection manager runs
OpSessions == 2     \* transports ever created, mailbox operation runs
OpCalls == 2        \* operations started over all callers, mailbox operation runs
MaxAppends == 2     \* drafts appended, over all callers

Procs == {1, 2}
Sessions == 1..(IF MaxSessions > OpSessions THEN MaxSessions ELSE OpSessions)
NoSession == 0

\* ------------------------------------------------------------ error values
\* A thrown value: isError is `error instanceof Error`; message is the text as
\* a sequence of phrases (a regular expression test looks for one of them).
Err(isErr, auth, code, msg) ==
  [isError |-> isErr, authenticationFailed |-> auth, code |-> code, message |-> msg]

E_RESET == Err(TRUE, FALSE, "ECONNRESET", <<"socket", "hang", "up">>)
E_NOCONN == Err(TRUE, FALSE, "NoConnection", <<"Connection", "not", "available">>)
E_NOMAILBOX == Err(TRUE, FALSE, "", <<"Mailbox", "does", "not", "exist">>)
E_NOFOLDER == Err(TRUE, FALSE, "", <<"Folder", "Closed", "does", "not", "exist">>)
E_STRING == Err(FALSE, FALSE, "", <<"string", "error">>)
E_AUTH == Err(TRUE, TRUE, "", <<"Authentication", "failed">>)
E_REFUSED == Err(TRUE, FALSE, "ECONNREFUSED", <<"connect", "ECONNREFUSED">>)
E_CERT == Err(TRUE, FALSE, "", <<"self", "signed", "Certificate">>)
E_CMD == Err(TRUE, FALSE, "", <<"Command", "failed">>)
E_NOTCONNECTED == Err(TRUE, FALSE, "", <<"IMAP client", "not connected", "Call connect() first">>)
E_NOTDRAFT == Err(TRUE, FALSE, "", <<"You can only update drafts">>)
E_NODRAFTS == Err(TRUE, FALSE, "", <<"Could not find Drafts folder">>)
E_FORMAT == Err(TRUE, FALSE, "", <<"Invalid composite ID format">>)
E_NOTFOUND == Err(TRUE, FALSE, "", <<"Email not found for ID", "It may have been deleted">>)
NoError == Err(FALSE, FALSE, "", <<>>)

\* What the transport may raise from flow.connect(), getMailboxLock() and a command.
ConnectErrors == {E_AUTH, E_REFUSED, E_CERT}
LockErrors == {E_RESET, E_NOCONN, E_NOMAILBOX, E_NOFOLDER, E_STRING}
CmdErrors == {E_CMD, E_RESET}

Lower(w) ==
  CASE w = "Connection" -> "connection"
    [] w = "Certificate" -> "certificate"
    [] w = "TLS" -> "tls"
    [] w = "Socket" -> "socket"
    [] w = "Timeout" -> "timeout"
    [] w = "Closed" -> "closed"
    [] OTHER -> w

\* /a|b|c/i.test(message)
TestI(words, msg) == \E i \in 1..Len(msg) : Lower(msg[i]) \in words

\* err.code?.startsWith("ERR_TLS"), over the codes used here.
StartsWithErrTls(code) ==
  code \in {"ERR_TLS_CERT_ALTNAME_INVALID", "ERR_TLS_HANDSHAKE_TIMEOUT"}

\* classifyImapError with the text test moved ahead of the code tests.
classifyImapErrorTextFirst(e) ==
  IF ~e.isError THEN Err(TRUE, FALSE, "", <<"IMAP error:">> \o e.message)
  ELSE IF e.authenticationFailed THEN Err(TRUE, FALSE, "", <<"IMAP authentication failed">>)
  ELSE IF StartsWithErrTls(e.code) \/ TestI({"tls", "certificate"}, e.message)
    THEN Err(TRUE, FALSE, "", <<"TLS/SSL error connecting to IMAP server">>)
  ELSE IF e.code = "ECONNREFUSED" THEN Err(TRUE, FALSE, "", <<"Cannot reach IMAP server">>)
  ELSE IF e.code = "ENOTFOUND" THEN Err(TRUE, FALSE, "", <<"Cannot resolve IMAP server hostname">>)
  ELSE IF e.code \in {"ETIMEDOUT", "CONNECT_TIMEOUT"}
    THEN Err(TRUE, FALSE, "", <<"Connection to IMAP server timed out">>)
  ELSE Err(TRUE, FALSE, "", <<"IMAP error:">> \o e.message)

classifyImapError(e) ==
  IF ~e.isError THEN Err(TRUE, FALSE, "", <<"IMAP error:">> \o e.message)
  ELSE IF e.authenticationFailed THEN Err(TRUE, FALSE, "", <<"IMAP authentication failed">>)
  ELSE IF e.code = "ECONNREFUSED" THEN Err(TRUE, FALSE, "", <<"Cannot reach IMAP server">>)
  ELSE IF e.code = "ENOTFOUND" THEN Err(TRUE, FALSE, "", <<"Cannot resolve IMAP server hostname">>)
  ELSE IF e.code \in {"ETIMEDOUT", "CONNECT_TIMEOUT"}
    THEN Err(TRUE, FALSE, "", <<"Connection to IMAP server timed out">>)
  ELSE IF StartsWithErrTls(e.code) \/ TestI({"tls", "certificate"}, e.message)
    THEN Err(TRUE, FALSE, "", <<"TLS/SSL error connecting to IMAP server">>)
  ELSE Err(TRUE, FALSE, "", <<"IMAP error:">> \o e.message)

RetryableCodes ==
  {"ECONNRESET", "EPIPE", "ETIMEDOUT", "ECONNREFUSED", "ENOTFOUND",
   "EHOSTUNREACH", "ENETUNREACH", "EAI_AGAIN"}

isRetryableMailboxLockError(e) ==
  IF ~e.isError THEN FALSE
  ELSE IF e.code # "" /\ e.code \in RetryableCodes THEN TRUE
  ELSE TestI({"connection", "socket", "not connected", "closed", "broken pipe", "timeout"},
             e.message)

\* ------------------------------------------------------------------- state
Folders == {"INBOX", "Drafts"}
AllFolders == Folders \cup {"Archive"}
NoFolder == "none"
Paths == Folders \cup {"MISSING"}

VARIABLES
  client,      \* ImapClient.client: the cached session, or NoSession (null)
  sst,         \* session -> "none" | "connecting" | "failed" | "live" | "stale" | "closed"
  lockHolder,  \* session -> the caller holding its mailbox lock, or 0
  selected,    \* session -> the folder selected on it, or NoFolder
  folderList,  \* the server's answer to LIST
  mbox,        \* the messages on the server: [f, uid, mid, flagged]
  uidNext,     \* folder -> next UID the server assigns there
  removed,     \* messages a delete command has expunged: [f, uid, mid]
  taken,       \* messages a call's move or delete took out of a folder: [mid, by]
  calls,       \* operations started so far
  lim,         \* the run's bounds and the operations its callers use
  proc,        \* caller -> its position and locals
  ev,          \* what the last step did (observation only)
  codec,       \* the identifier codec's arguments and results
  listing,     \* a listing operation's inputs (search and fetch answers) and result
  finding,     \* findDraftsFolder's outcome on the folder list
  classified   \* classifyImapError's argument and result

vars == <<client, sst, lockHolder, selected, folderList, mbox, uidNext, removed, taken, calls, lim, proc, ev, codec, listing,
         finding, classified>>

\* No listing computed.  dates: UID -> the envelope date of the message (a
\* Date, or "none"); found: the UIDs as search returned them; yield: the order
\* in which the server's fetch answers come.
NoListing == [dates |-> <<>>, found |-> <<>>, yield |-> <<>>, op |-> "none", count |-> 0,
              fetched |-> <<>>, results |-> <<>>]

\* classifyImapError not called.
NoClassified == [op |-> "none", error |-> NoError, result |-> NoError]

\* findDraftsFolder not called.
NoFinding == [op |-> "none", path |-> NoFolder, error |-> NoError]

\* The codec at rest: nothing built, nothing parsed.
NoCodec == [t |-> [day |-> 0, ms |-> 0], h |-> <<>>, raw |-> <<>>, op |-> "none",
            id |-> <<>>, ok |-> TRUE, date |-> <<>>, messageId |-> <<>>]

\* No identifier.
NoId == [kind |-> "none", val |-> 0]

Idle ==
  [fn |-> "idle", pc |-> "idle", stage |-> "", cont |-> "", flow |-> NoSession,
   cl |-> NoSession, att |-> 0, path |-> NoFolder, lk |-> NoSession, cs |-> NoSession,
   cmd |-> "", uid |-> 0, uids |-> {}, dest |-> NoFolder, q |-> "", reply |-> "none",
   df |-> NoFolder, adf |-> NoFolder, oldMid |-> 0, newMid |-> 0,
   nLock |-> 0, nReconn |-> 0, nAcq |-> 0, nRel |-> 0, first |-> NoSession,
   call |-> 0, tool |-> "", idOk |-> TRUE, idMid |-> 0, nApp |-> 0, nDel |-> 0, inDrafts |-> "unknown",
   id |-> NoId, hint |-> NoFolder, folders |-> <<>>, idx |-> 0, tried |-> <<>>, nList |-> 0,
   nMove |-> 0, rUid |-> 0, rBox |-> NoFolder, src |-> NoFolder, nSearch |-> 0,
   nFlag |-> 0, nFetch |-> 0, range |-> {}, hdf |-> NoFolder, draft |-> NoId]

\* type: what the step was; called/entry/entryUsable/ret/created: the connect()
\* call made in the step (the cache and its usability on entry, the session
\* returned in this step, the transport created); failed: the transport error
\* was raised by connect (c), by the first (1) or the second (2) lock attempt;
\* sig/entry of a close or error step: the session that signalled and the
\* cache when it did;
\* retryable/same/classified: the raised error against the thrown one;
\* keptCache: the step left the cache as it was; nLock..held: the counters of
\* the operation that ended in the step; cmd/on/lock/tgt: the command answered
\* in the step, the session it was sent on, the session of the lock held and
\* the folder it worked on and whether the server performed it; old/new: the draft an updateDraft that ended in the
\* step was replacing and the one it appended; tool/result: the tool handler
\* that ended in the step and what it gave its caller; nApp/nDel: the append
\* and delete commands the call sent; inDrafts: whether the drafts folder held
\* the identified message when the handler's search of it was answered;
\* id/hint/dest: the arguments of the tool call that ended in the step;
\* tried: the folders its resolveEmailId searched, in order, each with whether
\* it held the message when the search was answered and whether the search
\* found it; nList/nMove: the folder lists it requested and the move commands
\* it sent; rUid/rBox: what resolveEmailId gave back; rId/rDest: the
\* identifier and destination in the tool's result; moveHeld: every move command was sent
\* under the lock of the resolved folder, for the resolved UID;
\* src/nSearch/uids/count: the source folder a bulk move was given, the search
\* commands it sent, the UIDs its search matched and the count it reported;
\* nFlag/starred/wasFlagged: the flag commands a call sent, the `starred` of
\* the tool's result, and whether the identified message carried the flag
\* when the flag command was answered; error: the value a handler threw;
\* isError/text: the isError and the text of the result the tool call's
\* requester received ("none": no tool call ended in the step); rejected: the
\* command (search, fetch, fetchOne, move, flagsAdd, flagsRemove, delete, list,
\* append) whose promise rejected in the step; fn/nFetch/range: the operation
\* that ended in the step, the bulk fetches it sent and the UIDs its fetch
\* asked for (count: the entries a listing returned); hdf/df/adf: the drafts
\* folder the update_draft handler, updateDraft and createDraft found;
\* changed: the Message-IDs of the messages the step moved, flagged or deleted;
\* reply: the inReplyTo the operation that ended in the step was given; draft:
\* the identifier in the DraftResult of the createDraft it ran.
NoEv ==
  [type |-> "none", p |-> 0, called |-> FALSE, entry |-> NoSession, entryUsable |-> FALSE,
   ret |-> NoSession, created |-> NoSession, sig |-> NoSession, failed |-> "",
   retryable |-> FALSE, same |-> FALSE, classified |-> FALSE, keptCache |-> TRUE,
   nLock |-> 0, nReconn |-> 0, nAcq |-> 0, nRel |-> 0, held |-> FALSE,
   cmd |-> "", on |-> NoSession, lock |-> NoSession, tgt |-> NoFolder,
   old |-> 0, new |-> 0,
   done |-> TRUE, call |-> 0, tool |-> "", result |-> "", nApp |-> 0, nDel |-> 0, inDrafts |-> "unknown",
   id |-> NoId, hint |-> NoFolder, dest |-> NoFolder, tried |-> <<>>, nList |-> 0, nMove |-> 0,
   rUid |-> 0, rBox |-> NoFolder, rId |-> NoId, rDest |-> NoFolder,
   src |-> NoFolder, nSearch |-> 0, uids |-> {}, count |-> 0,
   nFlag |-> 0, starred |-> "none", wasFlagged |-> "unknown",
   error |-> NoError, isError |-> "none", text |-> <<>>, rejected |-> "",
   fn |-> "", nFetch |-> 0, range |-> {}, hdf |-> NoFolder, df |-> NoFolder,
   adf |-> NoFolder, changed |-> {}, reply |-> "none", draft |-> NoId]

InitFolderList ==
  << [path |-> "INBOX", name |-> "INBOX", specialUse |-> ""],
     [path |-> "Drafts", name |-> "Drafts", specialUse |-> "\\Drafts"] >>

InitMbox ==
  { [f |-> "INBOX", uid |-> 1, mid |-> 1, flagged |-> FALSE],
    [f |-> "Drafts", uid |-> 1, mid |-> 2, flagged |-> FALSE] }

MaxOf(S) == CHOOSE x \in S : \A y \in S : y <= x

InitImap(list, messages) ==
  /\ client = NoSession
  /\ sst = [s \in Sessions |-> "none"]
  /\ lockHolder = [s \in Sessions |-> 0]
  /\ selected = [s \in Sessions |-> NoFolder]
  /\ folderList = list
  /\ mbox = messages
  /\ uidNext = [f \in AllFolders |-> 1 + MaxOf({m.uid : m \in {x \in messages : x.f = f}} \cup {1})]
  /\ removed = {}
  /\ taken = {}
  /\ calls = 0
  /\ proc = [p \in Procs |-> Idle]
  /\ ev = NoEv

InitServer(list, messages) ==
  /\ InitImap(list, messages)
  /\ codec = NoCodec /\ listing = NoListing /\ finding = NoFinding
  /\ classified = NoClassified

InitState == InitServer(InitFolderList, InitMbox)

\* The folders that exist on the server.
Listed == {folderList[i].path : i \in 1..Len(folderList)}

\* The state one caller's step works on; `ok` is FALSE when the step cannot be
\* taken within the bounds (no session left to create).
World(p) ==
  [client |-> client, sst |-> sst, lockHolder |-> lockHolder, selected |-> selected,
   mbox |-> mbox, uidNext |-> uidNext, removed |-> removed, taken |-> taken,
   me |-> proc[p], p |-> p, calls |-> calls, folders |-> Listed,
   cap |-> lim.sessions, body |-> (IF "body" \in DOMAIN lim THEN lim.body ELSE <<>>),
   before |-> client, ev |-> [NoEv EXCEPT !.p = p], ok |-> TRUE]

Commit(w) ==
  /\ w.ok
  /\ client' = w.client
  /\ sst' = w.sst
  /\ lockHolder' = w.lockHolder
  /\ selected' = w.selected
  /\ mbox' = w.mbox
  /\ uidNext' = w.uidNext
  /\ removed' = w.removed
  /\ taken' = w.taken
  /\ proc' = [proc EXCEPT ![w.p] = w.me]
  /\ ev' = [w.ev EXCEPT !.keptCache = (w.client = w.before),
                        !.changed = {m.mid : m \in mbox \ w.mbox}]
  /\ UNCHANGED <<folderList, lim, codec, listing, finding, classified>>

Created(ss) == {s \in Sessions : ss[s] # "none"}
Usable(w, s) == w.sst[s] = "live"

\* ------------------------------------------------------- the end of a call
\* lock.release(): the lock is given back on the session that granted it.
release(w) ==
  [w EXCEPT !.lockHolder =
              IF w.me.lk # NoSession /\ w.lockHolder[w.me.lk] = w.p
                THEN [w.lockHolder EXCEPT ![w.me.lk] = 0] ELSE w.lockHolder,
            !.me.lk = NoSession,
            !.me.nRel = @ + 1]

NoRelease(w) == w

\* The `finally { lock.release() }` of every operation that holds a lock.
Finally(w) == IF w.me.lk # NoSession THEN release(w) ELSE w

\* The names in handlerMap (of the tools modelled here).
ToolNames ==
  {"move_email", "star_email", "unstar_email", "update_draft", "bulk_move_by_sender_email"}

\* The operation ends: its locals are gone.  A tool's result that was not
\* made by errorResult has no isError.
Settle(w, type) ==
  [w EXCEPT !.me = Idle,
            !.ev.type = type, !.ev.nLock = w.me.nLock, !.ev.nReconn = w.me.nReconn,
            !.ev.nAcq = w.me.nAcq, !.ev.nRel = w.me.nRel,
            !.ev.old = w.me.oldMid, !.ev.new = w.me.newMid,
            !.ev.call = w.me.call, !.ev.tool = w.me.tool, !.ev.nApp = w.me.nApp, !.ev.nDel = w.me.nDel,
            !.ev.inDrafts = w.me.inDrafts,
            !.ev.id = w.me.id, !.ev.hint = w.me.hint, !.ev.dest = w.me.dest,
            !.ev.tried = w.me.tried, !.ev.nList = w.me.nList, !.ev.nMove = w.me.nMove,
            !.ev.rUid = w.me.rUid, !.ev.rBox = w.me.rBox,
            !.ev.src = w.me.src, !.ev.nSearch = w.me.nSearch, !.ev.uids = w.me.uids,
            !.ev.nFlag = w.me.nFlag,
            !.ev.fn = w.me.fn, !.ev.nFetch = w.me.nFetch, !.ev.range = w.me.range,
            !.ev.hdf = w.me.hdf, !.ev.df = w.me.df, !.ev.adf = w.me.adf,
            !.ev.reply = w.me.reply, !.ev.draft = w.me.draft,
            !.ev.isError = IF type = "return" /\ w.ev.isError = "none" /\ w.me.tool \in ToolNames
                             THEN "no" ELSE w.ev.isError,
            !.ev.held = (w.me.lk # NoSession /\ w.lockHolder[w.me.lk] = w.p)]

\* What the caller of a tool can tell of a thrown error.
Kind(e) ==
  CASE e = E_NOTDRAFT -> "not in drafts"
    [] e = E_FORMAT -> "format"
    [] e = E_NODRAFTS -> "no drafts folder"
    [] e = E_NOTFOUND -> "not found"
    [] OTHER -> "error"

\* An exception leaves the CallTool request handler uncaught.
callToolUncaught(w, e) == [w EXCEPT !.ev.error = e]

\* The CallTool request handler's catch: the exception of a tool handler
\* becomes a result with isError and the text `Error executing ${name}:
\* ${message}`, message being error.message or String(error).
callToolCatch(w, e) ==
  IF w.me.tool \in ToolNames
    THEN [w EXCEPT !.ev.error = e, !.ev.isError = "yes",
                   !.ev.text = <<"Error executing", w.me.tool>> \o e.message]
    ELSE [w EXCEPT !.ev.error = e]

\* An exception leaves the operation: the finally blocks run, the caller gets
\* e; the caller of a tool handler is the CallTool request handler.
Throw(w, e) ==
  Settle([callToolCatch(Finally(w), e) EXCEPT !.ev.result = Kind(e)], "throw")

\* The transport raised `raw` from connect (c) or a lock attempt (1, 2) and the
\* operation throws e.
ThrowOn(w, where, raw, e) ==
  Throw([w EXCEPT !.ev.failed = where, !.ev.retryable = isRetryableMailboxLockError(raw),
                  !.ev.same = (e = raw), !.ev.classified = (e = classifyImapError(raw))], e)

Return(w) == Settle(Finally(w), "return")

commandRejectedReissue(w, cmd, e) ==
  [w EXCEPT !.ev.type = "reissue", !.ev.rejected = cmd, !.ev.error = e]

\* The promise of a command rejected with e: no operation catches it, it
\* leaves the operation through the finally blocks.
commandRejected(w, cmd, e) == Throw([w EXCEPT !.ev.rejected = cmd], e)

\* A tool handler returns errorResult(text).
errorResult(w, text) ==
  Settle([w EXCEPT !.ev.result = text, !.ev.isError = "yes", !.ev.text = <<text>>], "return")

\* The move_email handler returns jsonResult({ id, destination }).
jsonResult(w, id, destination) ==
  Settle([w EXCEPT !.ev.result = "json", !.ev.rId = id, !.ev.rDest = destination], "return")

\* ----------------------------------------------------- ImapClient.connect
NewSession(w) == 1 + Cardinality(Created(w.sst))

\* Where the caller goes once connect() has given it session s: it issues the
\* round trip it wanted the session for.
Resume(w, cont, s) ==
  LET w1 == [w EXCEPT !.ev.ret = s, !.me.cl = s, !.me.flow = NoSession, !.me.cont = ""]
  IN CASE cont = "lock" ->
            [w1 EXCEPT !.me.pc = "locking", !.me.nLock = @ + 1,
                       !.me.first = IF w.me.att = 1 THEN s ELSE @]
       [] cont = "list" -> [w1 EXCEPT !.me.pc = "listing"]
       [] cont = "append" -> [w1 EXCEPT !.me.pc = "appending", !.me.nApp = @ + 1]

\* connect() up to its first await: drop an unusable cached session, return the
\* cached one, or create a transport and start connecting it.
connectKeepStale(w, cont) ==
  LET w0 == [w EXCEPT !.ev.called = TRUE, !.ev.entry = w.client,
                      !.ev.entryUsable = (w.client # NoSession /\ Usable(w, w.client))]
      n == NewSession(w)
  IN IF w0.client # NoSession THEN Resume(w0, cont, w0.client)
     ELSE IF n > w.cap THEN [w0 EXCEPT !.ok = FALSE]
     ELSE [w0 EXCEPT !.sst[n] = "connecting", !.ev.created = n,
                     !.me.pc = "connecting", !.me.cont = cont, !.me.flow = n]

connectAlways(w, cont) ==
  LET w0 == [w EXCEPT !.ev.called = TRUE, !.ev.entry = w.client,
                      !.ev.entryUsable = (w.client # NoSession /\ Usable(w, w.client))]
      n == NewSession(w)
  IN IF n > w.cap THEN [w0 EXCEPT !.ok = FALSE]
     ELSE [w0 EXCEPT !.client = NoSession, !.sst[n] = "connecting", !.ev.created = n,
                     !.me.pc = "connecting", !.me.cont = cont, !.me.flow = n]

connect(w, cont) ==
  LET w0 == [w EXCEPT !.ev.called = TRUE, !.ev.entry = w.client,
                      !.ev.entryUsable = (w.client # NoSession /\ Usable(w, w.client))]
      w1 == IF w0.client # NoSession /\ ~Usable(w0, w0.client)
              THEN [w0 EXCEPT !.client = NoSession] ELSE w0
      n == NewSession(w)
  IN IF w1.client # NoSession THEN Resume(w1, cont, w1.client)
     ELSE IF n > w.cap THEN [w1 EXCEPT !.ok = FALSE]
     ELSE [w1 EXCEPT !.sst[n] = "connecting", !.ev.created = n,
                     !.me.pc = "connecting", !.me.cont = cont, !.me.flow = n]

\* flow.connect() resolved: the handlers are registered, the session is cached
\* and returned.
connectResolved(w) ==
  LET s == w.me.flow
  IN Resume([w EXCEPT !.sst[s] = "live", !.client = s, !.ev.type = "connected"],
            w.me.cont, s)

connectRejectedCaching(w, e) ==
  ThrowOn([w EXCEPT !.sst[w.me.flow] = "failed", !.client = w.me.flow], "c", e,
          classifyImapError(e))

\* flow.connect() rejected: the classified error is thrown, nothing is cached.
connectRejected(w, e) ==
  ThrowOn([w EXCEPT !.sst[w.me.flow] = "failed"], "c", e, classifyImapError(e))

\* -------------------------------------------------- ImapClient.openMailbox
openMailbox(w, path) ==
  connect([w EXCEPT !.me.path = path, !.me.att = 1, !.me.nLock = 0, !.me.nReconn = 0,
                    !.me.first = NoSession], "lock")

\* The catch block's retry: the cache is cleared, a new session is connected
\* and asked for the lock.
retry(w) ==
  connect([w EXCEPT !.client = NoSession, !.me.att = 2, !.me.nReconn = @ + 1,
                    !.ev.type = "retry", !.ev.failed = "1"], "lock")

Attempt(w) == IF w.me.att = 1 THEN "1" ELSE "2"
Seen(w, e) == [w EXCEPT !.ev.retryable = isRetryableMailboxLockError(e), !.ev.error = e]

lockRejectedRetryAgain(w, e) ==
  IF ~isRetryableMailboxLockError(e) THEN ThrowOn(w, Attempt(w), e, e) ELSE retry(Seen(w, e))

lockRejectedDiscarding(w, e) ==
  IF w.me.att = 2 \/ ~isRetryableMailboxLockError(e)
    THEN ThrowOn([w EXCEPT !.client = NoSession], Attempt(w), e, e)
    ELSE retry(Seen(w, e))

\* getMailboxLock rejected with e, on the first or on the second attempt.
lockRejected(w, e) ==
  IF w.me.att = 2 \/ ~isRetryableMailboxLockError(e)
    THEN ThrowOn(w, Attempt(w), e, e)
    ELSE retry(Seen(w, e))

\* ----------------------------------------------------- the identifier codec
\* A string is the sequence of its characters.  A Date is its time value,
\* held as the day number since 1970-01-01 and the milliseconds within the
\* day.
Digits == <<"0", "1", "2", "3", "4", "5", "6", "7", "8", "9">>

\* n in decimal, padded with zeros to the width (padStart).
RECURSIVE Pad(_, _)
Pad(n, width) ==
  IF width = 0 THEN <<>> ELSE Pad(n \div 10, width - 1) \o <<Digits[(n % 10) + 1]>>

\* The UTC calendar date of a day number (proleptic Gregorian calendar).
YearMonthDay(day) ==
  LET z == day + 719468
      era == z \div 146097
      doe == z - era * 146097
      yoe == (doe - doe \div 1460 + doe \div 36524 - doe \div 146096) \div 365
      doy == doe - (365 * yoe + yoe \div 4 - yoe \div 100)
      mp == (5 * doy + 2) \div 153
      m == IF mp < 10 THEN mp + 3 ELSE mp - 9
  IN [year |-> yoe + era * 400 + (IF m <= 2 THEN 1 ELSE 0), month |-> m,
      day |-> doy - (153 * mp + 2) \div 5 + 1]

\* The year of toISOString: four digits for 0..9999, otherwise a sign and six
\* digits.
IsoYear(y) ==
  IF y \in 0..9999 THEN Pad(y, 4)
  ELSE <<IF y < 0 THEN "-" ELSE "+">> \o Pad(IF y < 0 THEN 0 - y ELSE y, 6)

\* Date.prototype.toISOString(): YYYY-MM-DDTHH:mm:ss.sssZ in UTC.
toISOString(d) ==
  LET c == YearMonthDay(d.day)
      sec == d.ms \div 1000
  IN IsoYear(c.year) \o <<"-">> \o Pad(c.month, 2) \o <<"-">> \o Pad(c.day, 2) \o <<"T">>
       \o Pad(sec \div 3600, 2) \o <<":">> \o Pad((sec \div 60) % 60, 2) \o <<":">>
       \o Pad(sec % 60, 2) \o <<".">> \o Pad(d.ms % 1000, 3) \o <<"Z">>

\* String.prototype.slice(a, b), slice(a) and s[i] with indices from 0.
Slice(str, a, b) == SubSeq(str, a + 1, IF b < Len(str) THEN b ELSE Len(str))
SliceFrom(str, a) == SubSeq(str, a + 1, Len(str))
CharAt(str, i) == IF i < Len(str) THEN str[i + 1] ELSE "undefined"

buildCompositeIdFullIso(date, messageId) ==
  Slice(toISOString(date), 0, 23) \o <<".">> \o messageId

buildCompositeId(date, messageId) ==
  Slice(toISOString(date), 0, 19) \o <<".">> \o messageId

CodecFailed == [ok |-> FALSE, date |-> <<>>, messageId |-> <<>>]

\* A parse that also wants digits where the date has digits.
parseCompositeIdValidating(compositeId) ==
  IF Len(compositeId) < 20 \/ CharAt(compositeId, 19) # "."
       \/ \E i \in {1, 2, 3, 4} : \A k \in 1..10 : compositeId[i] # Digits[k]
    THEN CodecFailed
    ELSE [ok |-> TRUE, date |-> Slice(compositeId, 0, 19),
          messageId |-> SliceFrom(compositeId, 20)]

\* parseCompositeId: the thrown format error is ok = FALSE.
parseCompositeId(compositeId) ==
  IF Len(compositeId) < 20 \/ CharAt(compositeId, 19) # "."
    THEN CodecFailed
    ELSE [ok |-> TRUE, date |-> Slice(compositeId, 0, 19),
          messageId |-> SliceFrom(compositeId, 20)]

\* ---------------------------------------------------- the server's mailbox
From(mid) == IF mid \in {1, 5} THEN "alice@x.com" ELSE "me@x.org"

\* The header segment of an identifier built for a message without Message-ID
\* (`msg.envelope?.messageId || ""`), or of "YYYY-MM-DDTHH:mm:ss.": the empty
\* string.
EmptyHeader == -1

\* SEARCH on the server: a HEADER key matches the messages whose field holds
\* the string; the empty string is held by every Message-ID field.
Matches(m, q) ==
  CASE q.kind = "all" -> TRUE
    [] q.kind = "flagged" -> m.flagged
    [] q.kind = "from" -> From(m.mid) = q.val
    [] q.kind = "header" -> m.mid = q.val \/ q.val = EmptyHeader

AllQ == [kind |-> "all", val |-> 0]

\* The folder a command sent on session s works on: the one selected there.
Target(w, s) == w.selected[s]

InFolder(w, f) == {m \in w.mbox : m.f = f}

\* client.search(q, {uid: true}) on session s: the matching UIDs (none when no
\* folder is selected there: the library answers with a falsy value).
search(w, s, q) == {m.uid : m \in {x \in InFolder(w, Target(w, s)) : Matches(x, q)}}

MinOf(S) == CHOOSE x \in S : \A y \in S : x <= y

RECURSIVE messageMove(_, _, _, _)
messageMove(w, f, uids, dest) ==
  LET here == {m \in InFolder(w, f) : m.uid \in uids}
  IN IF here = {} \/ dest \notin w.folders \/ dest = f THEN w
     ELSE LET u == MinOf({m.uid : m \in here})
              m == CHOOSE x \in here : x.uid = u
              w1 == [w EXCEPT !.mbox = (w.mbox \ {m}) \cup
                                        {[m EXCEPT !.f = dest, !.uid = w.uidNext[dest]]},
                              !.uidNext[dest] = @ + 1,
                              !.taken = @ \cup {[mid |-> m.mid, by |-> w.me.call]}]
          IN messageMove(w1, f, uids \ {u}, dest)

messageFlagsToggle(w, f, uid, val) ==
  [w EXCEPT !.mbox = {IF m.f = f /\ m.uid = uid THEN [m EXCEPT !.flagged = ~@] ELSE m
                        : m \in w.mbox}]

\* client.messageFlagsAdd / messageFlagsRemove(uid, ["\\Flagged"], {uid: true}).
messageFlags(w, f, uid, val) ==
  [w EXCEPT !.mbox = {IF m.f = f /\ m.uid = uid THEN [m EXCEPT !.flagged = val] ELSE m
                        : m \in w.mbox}]

\* client.messageDelete(uid, {uid: true}): the message with that UID in the
\* folder selected on the session is expunged.
messageDelete(w, f, uid) ==
  LET gone == {m \in InFolder(w, f) : m.uid = uid}
  IN [w EXCEPT !.mbox = w.mbox \ gone,
               !.removed = w.removed \cup {[f |-> m.f, uid |-> m.uid, mid |-> m.mid] : m \in gone},
               !.taken = @ \cup {[mid |-> m.mid, by |-> w.me.call] : m \in gone}]

FreshMid(w) ==
  LET used == {m.mid : m \in w.mbox} \cup {m.mid : m \in w.removed} \cup {2}
  IN 1 + (CHOOSE x \in used : \A y \in used : y <= x)

\* client.append(folder, raw, ["\\Draft"])
append(w, f) ==
  [w EXCEPT !.mbox = w.mbox \cup
                       {[f |-> f, uid |-> w.uidNext[f], mid |-> FreshMid(w), flagged |-> FALSE]},
            !.uidNext[f] = @ + 1,
            !.me.newMid = FreshMid(w)]

\* ------------------------------------------------------- findDraftsFolder
\* mb.name.toLowerCase(), over the folder names used here.
LowerName(n) ==
  CASE n \in {"Drafts", "DRAFTS", "drafts"} -> "drafts"
    [] n = "INBOX" -> "inbox"
    [] n = "Sent" -> "sent"
    [] n = "Archive" -> "archive"
    [] n = "Entwuerfe" -> "entwuerfe"
    [] n = "My Drafts" -> "my drafts"
    [] n \in {"Message-ID", "Message-Id", "message-id"} -> "message-id"
    [] OTHER -> n

HasDraftsUse(mb) == mb.specialUse = "\\Drafts"
NamedDrafts(mb) == LowerName(mb.name) = "drafts"

\* The index at which each of the two loops returns (0: it runs to its end).
FirstDraftsUse(list) ==
  IF \E i \in 1..Len(list) : HasDraftsUse(list[i])
    THEN MinOf({i \in 1..Len(list) : HasDraftsUse(list[i])}) ELSE 0

FirstNamedDrafts(list) ==
  IF \E i \in 1..Len(list) : NamedDrafts(list[i])
    THEN MinOf({i \in 1..Len(list) : NamedDrafts(list[i])}) ELSE 0

findDraftsFolderNameFirst(list) ==
  LET i == FirstDraftsUse(list)
      j == FirstNamedDrafts(list)
  IN IF j # 0 THEN list[j].path
     ELSE IF i # 0 THEN list[i].path
     ELSE NoFolder

\* The path found, or NoFolder when the function throws.
findDraftsFolder(list) ==
  LET i == FirstDraftsUse(list)
      j == FirstNamedDrafts(list)
  IN IF i # 0 THEN list[i].path
     ELSE IF j # 0 THEN list[j].path
     ELSE NoFolder

\* ------------------------------------------------------------ the operations
ListFns ==
  {"listEmails", "listEmailsFromDomain", "listEmailsFromSender", "listInboxMessages",
   "listStarredEmails"}
FetchFns == {"fetchEmailContent", "fetchEmailAttachment"}
OneLockFns ==
  ListFns \cup FetchFns \cup
  {"resolveInMailbox", "moveEmail", "bulkMoveBySender", "starEmail", "unstarEmail"}
LockFns == OneLockFns \cup {"updateDraft"}
Fns == LockFns \cup {"listFolders", "createDraft"}

\* The commands whose promise resolves with a success value the caller may
\* test ("imapflow returns false on failure").
BoolCmds == {"move", "flagsAdd", "flagsRemove", "delete"}

\* The first command an operation sends once it holds its lock.
firstCmd(me) ==
  CASE me.fn \in ListFns \cup {"resolveInMailbox", "bulkMoveBySender"} -> "search"
    [] me.fn \in FetchFns -> "fetchOne"
    [] me.fn = "moveEmail" -> "move"
    [] me.fn = "starEmail" -> "flagsAdd"
    [] me.fn = "unstarEmail" -> "flagsRemove"
    [] me.fn = "updateDraft" /\ me.stage = "verify" -> "fetchOne"
    [] me.fn = "updateDraft" /\ me.stage = "delete" -> "delete"

\* imapClient.getClient(), then the command is sent on what it returned.
getClientThenSend(w, cmd) ==
  IF w.client = NoSession THEN Throw(w, E_NOTCONNECTED)
  ELSE [w EXCEPT !.me.cs = w.client, !.me.pc = "cmd", !.me.cmd = cmd,
                 !.me.nDel = IF cmd = "delete" THEN @ + 1 ELSE @,
                 !.me.nMove = IF cmd = "move" THEN @ + 1 ELSE @,
                 !.me.nSearch = IF cmd = "search" THEN @ + 1 ELSE @,
                 !.me.nFlag = IF cmd \in {"flagsAdd", "flagsRemove"} THEN @ + 1 ELSE @]

\* getMailboxLock resolved on session me.cl: the folder is selected there and
\* the caller enters its try block.
lockResolved(w) ==
  LET s == w.me.cl
      w1 == [w EXCEPT !.lockHolder[s] = w.p, !.selected[s] = w.me.path,
                      !.me.lk = s, !.me.nAcq = @ + 1, !.ev.type = "locked"]
  IN getClientThenSend(w1, firstCmd(w1.me))

createDraftUnparsed(w) == connect([w EXCEPT !.me.stage = "create.find"], "list")

\* createDraft up to its first await.
createDraft(w) ==
  IF w.me.reply = "bad" THEN Throw(w, E_FORMAT)
  ELSE connect([w EXCEPT !.me.stage = "create.find"], "list")

replaceDraftDeleteFirst(w) ==
  LET w1 == release(w) IN openMailbox([w1 EXCEPT !.me.stage = "delete"], w1.me.df)

\* updateDraft after the verification: release, then create the replacement.
replaceDraft(w) == createDraft(release(w))

\* The folder holds a message with this Message-ID.
HasMid(w, f, mid) == \E m \in InFolder(w, f) : m.mid = mid

\* The Message-ID of the message with this UID in the folder (0: none).
MidAt(w, f, uid) ==
  IF \E m \in InFolder(w, f) : m.uid = uid
    THEN (CHOOSE m \in InFolder(w, f) : m.uid = uid).mid ELSE 0

\* ---------------------------------------------------------- resolveEmailId
\* The tool handlers that call resolveEmailId, and resolveEmailId called on
\* its own.
StarTools == {"star_email", "unstar_email"}
ResolveTools == {"resolveEmailId", "move_email"} \cup StarTools

\* resolveEmailId calls resolveInMailbox(imapClient, messageId, mailbox).
resolveIn(w, stage, mailbox) ==
  openMailbox([w EXCEPT !.me.fn = "resolveInMailbox", !.me.stage = stage,
                        !.me.q = [kind |-> "header", val |-> w.me.idMid]], mailbox)

scanFromNoSkip(w, i) ==
  IF i > Len(w.me.folders) THEN Throw(w, E_NOTFOUND)
  ELSE resolveIn([w EXCEPT !.me.idx = i], "r.scan", w.me.folders[i].path)

\* 3. the loop over the listed folders from index i on: the hint and INBOX are
\* skipped; past the end the not-found error is thrown.
RECURSIVE scanFrom(_, _)
scanFrom(w, i) ==
  IF i > Len(w.me.folders) THEN Throw(w, E_NOTFOUND)
  ELSE IF w.me.folders[i].path \in {w.me.hint, "INBOX"} THEN scanFrom(w, i + 1)
  ELSE resolveIn([w EXCEPT !.me.idx = i], "r.scan", w.me.folders[i].path)

\* 3. listFolders(imapClient)
scanAll(w) ==
  connect([w EXCEPT !.me.fn = "listFolders", !.me.stage = "r.list", !.me.nList = @ + 1],
          "list")

\* 2. INBOX, unless it was the hint.
tryInbox(w) == IF w.me.hint # "INBOX" THEN resolveIn(w, "r.inbox", "INBOX") ELSE scanAll(w)

resolveEmailIdUnparsed(w) ==
  IF w.me.hint # NoFolder THEN resolveIn(w, "r.hint", w.me.hint) ELSE tryInbox(w)

\* resolveEmailId up to its first await: parse, then 1. the hint, if given.
resolveEmailId(w) ==
  IF ~w.me.idOk THEN Throw(w, E_FORMAT)
  ELSE IF w.me.hint # NoFolder THEN resolveIn(w, "r.hint", w.me.hint)
  ELSE tryInbox(w)

\* moveEmail(imapClient, uid, sourceFolder, destinationFolder) up to its await.
moveEmail(w, uid, sourceFolder) ==
  openMailbox([w EXCEPT !.me.fn = "moveEmail", !.me.stage = "m.move", !.me.uid = uid],
              sourceFolder)

\* resolveEmailId returns { uid, mailbox }: to its caller, or to the
\* move_email handler, which calls moveEmail.
returnLocator(w, uid, mailbox) ==
  LET w1 == [w EXCEPT !.me.rUid = uid, !.me.rBox = mailbox]
  IN CASE w.me.tool = "move_email" -> moveEmail(w1, uid, mailbox)
       [] w.me.tool = "star_email" ->
            openMailbox([w1 EXCEPT !.me.fn = "starEmail", !.me.stage = "s.flag",
                                   !.me.uid = uid], mailbox)
       [] w.me.tool = "unstar_email" ->
            openMailbox([w1 EXCEPT !.me.fn = "unstarEmail", !.me.stage = "s.flag",
                                   !.me.uid = uid], mailbox)
       [] OTHER -> Return(w1)

\* resolveInMailbox returned uids[0] or null to resolveEmailId.
emailResolved(w, uids) ==
  LET me == w.me
      w1 == [Finally(w) EXCEPT
               !.me.tried = Append(@, [f |-> me.path,
                                       had |-> HasMid(w, me.path, me.idMid),
                                       got |-> uids # {}])]
  IN IF uids # {} THEN returnLocator(w1, MinOf(uids), me.path)
     ELSE CASE me.stage = "r.hint" -> tryInbox(w1)
            [] me.stage = "r.inbox" -> scanAll(w1)
            [] me.stage = "r.scan" -> scanFrom(w1, me.idx + 1)

movedReturningLocator(w) ==
  IF w.me.tool = "move_email"
    THEN jsonResult(Finally(w), [kind |-> "uid", val |-> w.me.uid], w.me.dest)
    ELSE Return(w)

\* starEmail / unstarEmail returned { uid, starred } to its caller, or to the
\* handler, which returns jsonResult({ id, starred }).
starResult(w, val) ==
  IF w.me.tool \in StarTools
    THEN Settle([Finally(w) EXCEPT !.ev.result = "json", !.ev.rId = w.me.id,
                                   !.ev.starred = IF val THEN "yes" ELSE "no"], "return")
    ELSE Return(w)

\* messageFlagsAdd / messageFlagsRemove has been answered.
flagsResolved(w, f, val) ==
  LET was == \E m \in w.mbox : m.mid = w.me.idMid /\ m.flagged
  IN starResult([messageFlags(w, f, w.me.uid, val) EXCEPT
                !.ev.wasFlagged = IF was THEN "yes" ELSE "no"], val)

\* moveEmail returned { uid, destination } to its caller or to the handler.
moved(w) ==
  IF w.me.tool = "move_email" THEN jsonResult(Finally(w), w.me.id, w.me.dest)
  ELSE Return(w)

\* ------------------------------------------------ bulk_move_by_sender_email
bulkResultCountZero(w, count) ==
  Settle([w EXCEPT !.ev.result = "json", !.ev.count = count], "return")

\* The handler's result for the count bulkMoveBySender returned.
bulkResult(w, count) ==
  IF count = 0 THEN errorResult(w, "No emails from")
  ELSE Settle([w EXCEPT !.ev.result = "json", !.ev.count = count], "return")

\* bulkMoveBySender returns the count: to its caller, or to the handler.
bulkReturn(w, count) ==
  IF w.me.tool = "bulk_move_by_sender_email" THEN bulkResult(Finally(w), count)
  ELSE Return([w EXCEPT !.ev.count = count])

\* folderExists(imapClient, path): listFolders, then folders.some(...).
folderExists(w, stage) == connect([w EXCEPT !.me.fn = "listFolders", !.me.stage = stage], "list")

\* The handler after a folderExists has answered.
existsResolved(w, list) ==
  LET paths == {list[i].path : i \in 1..Len(list)}
  IN IF w.me.stage = "b.src"
       THEN IF w.me.src \notin paths THEN errorResult(w, "Source folder not found")
            ELSE folderExists(w, "b.dst")
       ELSE IF w.me.dest \notin paths THEN errorResult(w, "Destination folder not found")
            ELSE openMailbox([w EXCEPT !.me.fn = "bulkMoveBySender", !.me.stage = "b.move"],
                             w.me.src)

\* resolveInMailbox returned uids[0] or null (here 0) to the update_draft
\* handler: errorResult, or updateDraft with the UID found.
draftResolved(w, uids) ==
  LET w1 == [Finally(w) EXCEPT
               !.me.inDrafts = IF HasMid(w, w.me.df, w.me.idMid) THEN "yes" ELSE "no"]
  IN IF uids = {} THEN errorResult(w1, "Draft not found")
     ELSE connect([w1 EXCEPT !.me.fn = "updateDraft", !.me.stage = "find",
                             !.me.uid = MinOf(uids)], "list")

\* resolveInMailbox returns: to the handler that called it, or to the caller.
resolved(w, uids) ==
  CASE w.me.tool = "update_draft" -> draftResolved(w, uids)
    [] w.me.tool \in ResolveTools -> emailResolved(w, uids)
    [] OTHER -> Return(w)

\* A listing sends its fetch whatever the search matched.
listSearchedFetchAlways(w, uids) ==
  [w EXCEPT !.me.uids = uids, !.me.cmd = "fetch", !.me.nFetch = @ + 1, !.me.range = uids]

\* A listing after `await client.search(...)`: [] at once when nothing
\* matched, else client.fetch(sortedUids.join(","), ...) for the matched UIDs.
listSearched(w, uids) ==
  IF uids = {} THEN Return([w EXCEPT !.ev.count = 0])
  ELSE [w EXCEPT !.me.uids = uids, !.me.cmd = "fetch", !.me.nFetch = @ + 1, !.me.range = uids]

\* The `for await` over the fetch has ended: one entry for each message the
\* server answered with; the entries are sorted and returned.
listFetched(w) ==
  Return([w EXCEPT !.ev.count =
            Cardinality({m \in InFolder(w, Target(w, w.me.cs)) : m.uid \in w.me.range})])

\* The command sent on session me.cs has been answered.  `done` is FALSE when
\* a move, flag or delete command resolved with the library's failure value
\* (false) instead of throwing: the server changed nothing.
cmdResolved(w, parseOk, done) ==
  LET me == w.me
      f == IF done THEN Target(w, me.cs) ELSE NoFolder
      found == \E m \in InFolder(w, f) : m.uid = me.uid
      w0 == [w EXCEPT !.ev.type = "cmd", !.ev.cmd = me.cmd, !.ev.on = me.cs,
                      !.ev.lock = me.lk, !.ev.tgt = f, !.ev.done = done]
  IN CASE me.cmd = "search" ->
            LET uids == search(w, me.cs, me.q)
            IN IF me.fn = "resolveInMailbox" THEN resolved(w0, uids)
               ELSE IF me.fn \in ListFns THEN listSearched(w0, uids)
               ELSE IF uids = {} THEN bulkReturn(w0, 0)
               ELSE [w0 EXCEPT !.me.uids = uids, !.me.cmd = "move", !.me.nMove = @ + 1]
       [] me.cmd = "fetch" -> listFetched(w0)
       [] me.cmd = "fetchOne" ->
            IF me.fn = "updateDraft"
              THEN IF found
                     THEN replaceDraft([w0 EXCEPT !.me.oldMid = MidAt(w, me.df, me.uid)])
                     ELSE Throw(w0, E_NOTDRAFT)
              ELSE IF found /\ ~parseOk THEN Throw(w0, E_CMD) ELSE Return(w0)
       [] me.cmd = "move" ->
            IF me.fn = "moveEmail" THEN moved(messageMove(w0, f, {me.uid}, me.dest))
            ELSE bulkReturn(messageMove(w0, f, me.uids, me.dest), Cardinality(me.uids))
       [] me.cmd = "flagsAdd" -> flagsResolved(w0, f, TRUE)
       [] me.cmd = "flagsRemove" -> flagsResolved(w0, f, FALSE)
       [] me.cmd = "delete" -> Return(messageDelete(w0, f, me.uid))

\* client.list() has been answered.
listResolved(w, list) ==
  LET me == w.me
      df == findDraftsFolder(list)
      w0 == [w EXCEPT !.ev.type = "listed"]
  IN CASE me.stage = "r.list" -> scanFrom([w0 EXCEPT !.me.folders = list], 1)
       [] me.stage \in {"b.src", "b.dst"} -> existsResolved(w0, list)
       [] me.fn = "listFolders" /\ me.stage = "" -> Return(w0)
       [] df = NoFolder /\ me.stage \notin {"", "r.list", "b.src", "b.dst"} -> Throw(w0, E_NODRAFTS)
       [] me.stage = "h.find" ->
            IF ~me.idOk THEN Throw(w0, E_FORMAT)
            ELSE openMailbox([w0 EXCEPT !.me.df = df, !.me.hdf = df, !.me.stage = "h.resolve",
                                        !.me.fn = "resolveInMailbox",
                                        !.me.q = [kind |-> "header", val |-> me.idMid]], df)
       [] me.stage = "find" -> openMailbox([w0 EXCEPT !.me.df = df, !.me.stage = "verify"], df)
       [] me.stage = "create.find" ->
            connect([w0 EXCEPT !.me.adf = df, !.me.stage = "create.append"], "append")

\* One line of a raw message: a header line with its field name and value, or
\* a line of the body (which may read like a header line).
Line(n, v) == [name |-> n, value |-> v]

\* buildMessage(sender, options, replyMessageId): msg.asRaw() gives the header
\* lines, among them the Message-ID the library generated, then the body.
buildMessage(mid, body) ==
  <<Line("From", 0), Line("To", 0), Line("Subject", 0), Line("Message-ID", mid)>> \o body

MessageIdLines(raw) == {i \in 1..Len(raw) : LowerName(raw[i].name) = "message-id"}

\* raw.match(/^Message-ID:\s*(.+)$/mi): the value on the first line that
\* begins with Message-ID: in any case, "" when there is none.
generatedMessageId(raw) ==
  IF MessageIdLines(raw) = {} THEN EmptyHeader ELSE raw[MinOf(MessageIdLines(raw))].value

\* The id of the DraftResult: buildCompositeId(now, generatedMessageId).
draftId(raw) == [kind |-> "header", val |-> generatedMessageId(raw)]

\* client.append() has been answered.
appendResolved(w) ==
  LET raw == buildMessage(FreshMid(w), w.body)
      w0 == append([w EXCEPT !.ev.type = "appended", !.me.draft = draftId(raw)], w.me.adf)
  IN IF w.me.fn = "createDraft" THEN Return(w0)
     ELSE openMailbox([w0 EXCEPT !.me.stage = "delete"], w0.me.df)

\* The caller starts operation fn with the given arguments.
\* handlerMap.get(name) is defined.
HasHandler(name) ==
  name \in Fns \cup ResolveTools \cup {"bulk_move_by_sender_email", "update_draft"}

\* `if (!id || !destinationFolder)`, `if (!id)`, `if (!id || !to || ...)` of
\* the handlers.
MissingArgument(fn, q, dest) ==
  /\ fn \in ToolNames \ {"bulk_move_by_sender_email"}
  /\ q.kind = "none" \/ (fn = "move_email" /\ dest = NoFolder)

start(w, fn, mailbox, uid, dest, q, reply) ==
  LET w0 == [w EXCEPT !.me = [Idle EXCEPT !.fn = fn, !.uid = uid, !.dest = dest, !.q = q,
                                          !.reply = reply, !.call = w.calls + 1],
                      !.ev.type = "start"]
  IN CASE fn \in OneLockFns -> openMailbox(w0, mailbox)
       [] fn = "listFolders" -> connect(w0, "list")
       [] fn = "createDraft" -> createDraft(w0)
       [] fn = "updateDraft" -> connect([w0 EXCEPT !.me.stage = "find"], "list")
       [] ~HasHandler(fn) -> errorResult([w0 EXCEPT !.me.tool = fn], "Unknown tool")
       [] MissingArgument(fn, q, dest) ->
            errorResult([w0 EXCEPT !.me.tool = fn, !.me.id = q], "required")
       [] fn \in ResolveTools /\ ~MissingArgument(fn, q, dest) ->
            resolveEmailId([w0 EXCEPT !.me.tool = fn, !.me.id = q, !.me.hint = mailbox,
                                      !.me.idOk = (q.kind # "bad"), !.me.idMid = q.val])
       [] fn = "bulk_move_by_sender_email" ->
            folderExists([w0 EXCEPT !.me.tool = fn, !.me.src = mailbox], "b.src")
       [] fn = "update_draft" /\ ~MissingArgument(fn, q, dest) ->
            connect([w0 EXCEPT !.me.tool = fn, !.me.id = q, !.me.fn = "findDraftsFolder",
                               !.me.stage = "h.find", !.me.idOk = (q.kind # "bad"),
                               !.me.idMid = q.val], "list")

\* ---------------------------------------------------------------- arguments
UidArgs == {1, 2}

\* Identifiers given to a tool: one that parses, carrying the Message-ID of the
\* INBOX message (1) or of the draft (2), and one that does not parse.
Ids == {[kind |-> "header", val |-> 1], [kind |-> "header", val |-> 2],
        [kind |-> "bad", val |-> 0]}

QueryOf(fn) ==
  CASE fn \in {"listEmails", "listInboxMessages"} -> {AllQ}
    [] fn \in {"listEmailsFromDomain", "listEmailsFromSender", "bulkMoveBySender"} ->
         {[kind |-> "from", val |-> "alice@x.com"]}
    [] fn = "bulk_move_by_sender_email" ->
         {[kind |-> "from", val |-> "alice@x.com"], [kind |-> "from", val |-> "nobody@x.com"]}
    [] fn = "listStarredEmails" -> {[kind |-> "flagged", val |-> 0]}
    [] fn = "resolveInMailbox" -> {[kind |-> "header", val |-> 2]}
    [] fn = "update_draft" -> IF "ids" \in DOMAIN lim THEN lim.ids ELSE Ids
    [] fn \in ResolveTools -> lim.ids
    [] OTHER -> {AllQ}

MailboxOf(fn) ==
  CASE fn \in OneLockFns -> lim.paths
    [] fn \in ResolveTools -> lim.paths \cup {NoFolder}
    [] fn = "bulk_move_by_sender_email" -> lim.paths
    [] OTHER -> {NoFolder}
UidOf(fn) ==
  IF fn \in FetchFns \cup {"moveEmail", "starEmail", "unstarEmail", "updateDraft"}
    THEN UidArgs ELSE {0}
DestOf(fn) ==
  CASE fn \in {"moveEmail", "bulkMoveBySender"} -> Listed
    [] fn = "move_email" ->
         Listed \cup (IF NoId \in lim.ids THEN {NoFolder} ELSE {})
    [] fn = "bulk_move_by_sender_email" -> lim.paths
    [] OTHER -> {NoFolder}
ReplyOf(fn) == IF fn \in {"createDraft", "updateDraft"} THEN {"none", "bad"} ELSE {"none"}

\* ------------------------------------------------------------------ actions
Start(p) ==
  /\ proc[p].fn = "idle"
  /\ calls < lim.calls
  /\ \E fn \in lim.fns[p] :
       \E mailbox \in MailboxOf(fn), uid \in UidOf(fn), dest \in DestOf(fn),
          q \in QueryOf(fn), reply \in ReplyOf(fn) :
         Commit(start(World(p), fn, mailbox, uid, dest, q, reply))
  /\ calls' = calls + 1

ConnectOk(p) ==
  /\ proc[p].pc = "connecting"
  /\ \E w0 \in {World(p)} : \E w1 \in {connectResolved(w0)} : Commit(w1)
  /\ UNCHANGED calls

ConnectFail(p) ==
  /\ proc[p].pc = "connecting"
  /\ \E e \in ConnectErrors, w0 \in {World(p)} :
       \E w1 \in {connectRejected(w0, e)} : Commit(w1)
  /\ UNCHANGED calls

LockOk(p) ==
  /\ proc[p].pc = "locking"
  /\ sst[proc[p].cl] = "live"
  /\ proc[p].path \in Listed
  /\ lockHolder[proc[p].cl] = 0
  /\ \E w0 \in {World(p)} : \E w1 \in {lockResolved(w0)} : Commit(w1)
  /\ UNCHANGED calls

LockFail(p) ==
  /\ proc[p].pc = "locking"
  /\ \E e \in LockErrors, w0 \in {World(p)} :
       \E w1 \in {lockRejected(w0, e)} : Commit(w1)
  /\ UNCHANGED calls

CmdOk(p) ==
  /\ proc[p].pc = "cmd"
  /\ sst[proc[p].cs] = "live"
  /\ \E parseOk \in (IF proc[p].fn \in FetchFns THEN BOOLEAN ELSE {TRUE}),
        done \in (IF proc[p].cmd \in BoolCmds THEN BOOLEAN ELSE {TRUE}) :
       \E w0 \in {World(p)} : \E w1 \in {cmdResolved(w0, parseOk, done)} : Commit(w1)
  /\ UNCHANGED calls

CmdFail(p) ==
  /\ proc[p].pc = "cmd"
  /\ \E e \in CmdErrors, w0 \in {World(p)} :
       \E w1 \in {commandRejected(w0, proc[p].cmd, e)} : Commit(w1)
  /\ UNCHANGED calls

ListOk(p) ==
  /\ proc[p].pc = "listing"
  /\ sst[proc[p].cl] = "live"
  /\ Commit(listResolved(World(p), folderList))
  /\ UNCHANGED calls

ListFail(p) ==
  /\ proc[p].pc = "listing"
  /\ \E e \in CmdErrors : Commit(commandRejected(World(p), "list", e))
  /\ UNCHANGED calls

AppendOk(p) ==
  /\ proc[p].pc = "appending"
  /\ sst[proc[p].cl] = "live"
  /\ FreshMid(World(p)) <= 2 + MaxAppends
  /\ Commit(appendResolved(World(p)))
  /\ UNCHANGED calls

AppendFail(p) ==
  /\ proc[p].pc = "appending"
  /\ \E e \in CmdErrors : Commit(commandRejected(World(p), "append", e))
  /\ UNCHANGED calls

\* A session that can no longer answer holds no lock and has no folder selected.
Dead(f, s, none) == [f EXCEPT ![s] = none]

\* The transport of a session breaks: flow.usable turns false; the signals
\* follow later.
SessionStale(s) ==
  /\ sst[s] = "live"
  /\ sst' = [sst EXCEPT ![s] = "stale"]
  /\ lockHolder' = Dead(lockHolder, s, 0)
  /\ selected' = Dead(selected, s, NoFolder)
  /\ ev' = [NoEv EXCEPT !.type = "stale", !.sig = s]
  /\ UNCHANGED <<client, folderList, mbox, uidNext, removed, taken, calls, lim, proc, codec,
                 listing, finding, classified>>

onSignalIgnored(s) == client

\* flow.on("error", ...): the error is classified and logged, the cache cleared.
onError(s) == NoSession
\* flow.on("close", ...): the cache is cleared.
onClose(s) == NoSession

SignalError(s) ==
  /\ sst[s] \in {"live", "stale"}
  /\ sst' = [sst EXCEPT ![s] = "stale"]
  /\ client' = onError(s)
  /\ lockHolder' = Dead(lockHolder, s, 0)
  /\ selected' = Dead(selected, s, NoFolder)
  /\ ev' = [NoEv EXCEPT !.type = "error", !.sig = s, !.entry = client,
                         !.keptCache = (client' = client)]
  /\ UNCHANGED <<folderList, mbox, uidNext, removed, taken, calls, lim, proc, codec,
                 listing, finding, classified>>

SignalClose(s) ==
  /\ sst[s] \in {"live", "stale"}
  /\ sst' = [sst EXCEPT ![s] = "closed"]
  /\ client' = onClose(s)
  /\ lockHolder' = Dead(lockHolder, s, 0)
  /\ selected' = Dead(selected, s, NoFolder)
  /\ ev' = [NoEv EXCEPT !.type = "close", !.sig = s, !.entry = client,
                         !.keptCache = (client' = client)]
  /\ UNCHANGED <<folderList, mbox, uidNext, removed, taken, calls, lim, proc, codec,
                 listing, finding, classified>>

\* ------------------------------------------------------------ specifications
\* The connection manager under two concurrent callers: connect() (listFolders)
\* and openMailbox() (resolveInMailbox).
ConnFns == {"listFolders", "resolveInMailbox"}

Init ==
  /\ InitState
  /\ lim = [sessions |-> MaxSessions, calls |-> MaxCalls, paths |-> Paths,
            fns |-> [p \in Procs |-> ConnFns]]

Next ==
  \/ \E p \in Procs : Start(p)
  \/ \E p \in Procs : ConnectOk(p)
  \/ \E p \in Procs : ConnectFail(p)
  \/ \E p \in Procs : LockOk(p)
  \/ \E p \in Procs : LockFail(p)
  \/ \E p \in Procs : CmdOk(p)
  \/ \E p \in Procs : CmdFail(p)
  \/ \E p \in Procs : ListOk(p)
  \/ \E p \in Procs : ListFail(p)
  \/ \E s \in Sessions : SessionStale(s)
  \/ \E s \in Sessions : SignalError(s)
  \/ \E s \in Sessions : SignalClose(s)

Spec == Init /\ [][Next]_vars

\* Every operation that takes a folder lock, run by caller 1 while caller 2
\* stars and lists on the same ImapClient.
InitOps ==
  /\ InitState
  /\ lim = [sessions |-> OpSessions, calls |-> OpCalls, paths |-> Folders,
            fns |-> [p \in Procs |-> IF p = 1 THEN LockFns ELSE {"starEmail", "listFolders"}]]

\* The draft replace protocol under concurrent calls that replace, create and
\* move.
DraftFns == {"updateDraft", "createDraft", "moveEmail"}

InitDraft ==
  /\ InitState
  /\ lim = [sessions |-> OpSessions, calls |-> OpCalls, paths |-> Folders,
            fns |-> [p \in Procs |-> DraftFns]]

NextOps ==
  \/ \E p \in Procs : Start(p)
  \/ \E p \in Procs : ConnectOk(p)
  \/ \E p \in Procs : ConnectFail(p)
  \/ \E p \in Procs : LockOk(p)
  \/ \E p \in Procs : LockFail(p)
  \/ \E p \in Procs : CmdOk(p)
  \/ \E p \in Procs : CmdFail(p)
  \/ \E p \in Procs : ListOk(p)
  \/ \E p \in Procs : ListFail(p)
  \/ \E p \in Procs : AppendOk(p)
  \/ \E p \in Procs : AppendFail(p)
  \/ \E s \in Sessions : SignalClose(s)

SpecOps == InitOps /\ [][NextOps]_vars

SpecDraft == InitDraft /\ [][NextOps]_vars

\* The update_draft tool, called while another call moves or stars a message.
InitUpdate ==
  /\ InitState
  /\ lim = [sessions |-> OpSessions, calls |-> OpCalls, paths |-> Folders,
            fns |-> [p \in Procs |-> IF p = 1 THEN {"update_draft"}
                                             ELSE {"moveEmail", "starEmail"}]]

SpecUpdate == InitUpdate /\ [][NextOps]_vars

\* The update_draft tool on a server whose drafts folder is found by its name,
\* while another client of the account creates a folder that carries the
\* \Drafts special-use marker.
NamedFolderList ==
  << [path |-> "INBOX", name |-> "INBOX", specialUse |-> ""],
     [path |-> "Drafts", name |-> "Drafts", specialUse |-> ""] >>

MarkedFolder == [path |-> "Archive", name |-> "Archive", specialUse |-> "\\Drafts"]

InitFolders ==
  /\ InitServer(NamedFolderList, InitMbox)
  /\ lim = [sessions |-> OpSessions, calls |-> OpCalls, paths |-> {"Drafts"},
            ids |-> {[kind |-> "header", val |-> 2]},
            fns |-> [p \in Procs |-> IF p = 1 THEN {"update_draft"} ELSE {"listFolders"}]]

\* The server's folder list changes: the marked folder is created.
FolderCreated ==
  /\ folderList = NamedFolderList
  /\ folderList' = NamedFolderList \o <<MarkedFolder>>
  /\ ev' = [NoEv EXCEPT !.type = "folders"]
  /\ UNCHANGED <<client, sst, lockHolder, selected, mbox, uidNext, removed, taken, calls,
                 lim, proc, codec, listing, finding, classified>>

NextFolders ==
  \/ \E p \in Procs : Start(p)
  \/ \E p \in Procs : ConnectOk(p)
  \/ \E p \in Procs : ConnectFail(p)
  \/ \E p \in Procs : LockOk(p)
  \/ \E p \in Procs : LockFail(p)
  \/ \E p \in Procs : CmdOk(p)
  \/ \E p \in Procs : CmdFail(p)
  \/ \E p \in Procs : ListOk(p)
  \/ \E p \in Procs : ListFail(p)
  \/ \E p \in Procs : AppendOk(p)
  \/ \E p \in Procs : AppendFail(p)
  \/ \E s \in Sessions : SignalClose(s)
  \/ FolderCreated

SpecFolders == InitFolders /\ [][NextFolders]_vars

\* The tools that change a message, called with the identifier of the INBOX
\* message, of the draft, and with one whose header segment is empty.
MutationTools == {"move_email", "star_email", "unstar_email", "update_draft"}

EmptyId == [kind |-> "header", val |-> EmptyHeader]

InitExact ==
  /\ InitState
  /\ lim = [sessions |-> OpSessions, calls |-> OpCalls, paths |-> {"INBOX"},
            ids |-> {[kind |-> "header", val |-> 1], [kind |-> "header", val |-> 2], EmptyId},
            fns |-> [p \in Procs |-> IF p = 1 THEN MutationTools ELSE {"listFolders"}]]

SpecExact == InitExact /\ [][NextOps]_vars

\* createDraft, then update_draft with the identifier createDraft returns for
\* the first draft appended (Message-ID 3), while another caller stars; the
\* body of the draft is empty or holds a line that reads "Message-ID: 1".
ReturnedCalls == 3

Bodies == {<<>>, <<Line("message-id", 1)>>}

InitReturned ==
  /\ InitState
  /\ \E body \in Bodies :
       lim = [sessions |-> OpSessions, calls |-> ReturnedCalls, paths |-> {"INBOX"},
              ids |-> {[kind |-> "header", val |-> 3]}, body |-> body,
              fns |-> [p \in Procs |-> IF p = 1 THEN {"createDraft", "update_draft"}
                                               ELSE {"starEmail"}]]

SpecReturned == InitReturned /\ [][NextOps]_vars

\* resolveEmailId on a server with a third folder, called with the identifier
\* of either message, of no message and with a malformed one, while another
\* call moves messages.
ResolveFolderList ==
  InitFolderList \o << [path |-> "Archive", name |-> "Archive", specialUse |-> ""] >>

InitResolve ==
  /\ InitServer(ResolveFolderList, InitMbox)
  /\ lim = [sessions |-> OpSessions, calls |-> OpCalls, paths |-> AllFolders,
            ids |-> Ids \cup {[kind |-> "header", val |-> 0]},
            fns |-> [p \in Procs |-> IF p = 1 THEN {"resolveEmailId"} ELSE {"moveEmail"}]]

NextResolve ==
  \/ \E p \in Procs : Start(p)
  \/ \E p \in Procs : ConnectOk(p)
  \/ \E p \in Procs : ConnectFail(p)
  \/ \E p \in Procs : LockOk(p)
  \/ \E p \in Procs : LockFail(p)
  \/ \E p \in Procs : CmdOk(p)
  \/ \E p \in Procs : CmdFail(p)
  \/ \E p \in Procs : ListOk(p)
  \/ \E p \in Procs : ListFail(p)
  \/ \E s \in Sessions : SignalClose(s)

SpecResolve == InitResolve /\ [][NextResolve]_vars

\* The move_email tool, called with the identifier of the INBOX message or a
\* malformed one, while another call moves messages.
InitMove ==
  /\ InitServer(ResolveFolderList, InitMbox)
  /\ lim = [sessions |-> OpSessions, calls |-> OpCalls, paths |-> AllFolders,
            ids |-> {[kind |-> "header", val |-> 1], [kind |-> "bad", val |-> 0]},
            fns |-> [p \in Procs |-> IF p = 1 THEN {"move_email"} ELSE {"moveEmail"}]]

SpecMove == InitMove /\ [][NextResolve]_vars

\* The star_email and unstar_email tools, called by two callers for the INBOX
\* message, one after the other or together.
InitStar ==
  /\ InitServer(InitFolderList, InitMbox)
  /\ lim = [sessions |-> OpSessions, calls |-> OpCalls, paths |-> Folders,
            ids |-> {[kind |-> "header", val |-> 1]},
            fns |-> [p \in Procs |-> StarTools]]

SpecStar == InitStar /\ [][NextResolve]_vars

\* The bulk_move_by_sender_email tool on an INBOX with two messages of the
\* sender, called with existing and missing folders and with a sender of no
\* message, while another call moves single messages.
BulkMbox == InitMbox \cup {[f |-> "INBOX", uid |-> 2, mid |-> 5, flagged |-> FALSE]}

InitBulk ==
  /\ InitServer(InitFolderList, BulkMbox)
  /\ lim = [sessions |-> OpSessions, calls |-> OpCalls, paths |-> Paths,
            fns |-> [p \in Procs |-> IF p = 1 THEN {"bulk_move_by_sender_email"}
                                             ELSE {"moveEmail"}]]

SpecBulk == InitBulk /\ [][NextResolve]_vars

\* The codec on its own: a timestamp, a Message-ID header value and a string
\* to parse are given; an identifier is built and parsed back, or the given
\* string is parsed.
Rep(c, n) == [i \in 1..n |-> c]

\* 1970-01-01T00:00:00.000, 1970-01-01T00:00:00.001, 2026-02-12T14:30:25.123,
\* 2024-02-29T23:59:59.999, 1969-12-31T23:59:59.999, 0000-01-01T00:00:00.000,
\* 9999-12-31T23:59:59.999, and the first and last millisecond outside the
\* years 0000..9999.
Timestamps ==
  {[day |-> 0, ms |-> 0], [day |-> 0, ms |-> 1], [day |-> 20496, ms |-> 52225123],
   [day |-> 19782, ms |-> 86399999], [day |-> 0 - 1, ms |-> 86399999],
   [day |-> 0 - 719528, ms |-> 0], [day |-> 2932896, ms |-> 86399999],
   [day |-> 2932897, ms |-> 0], [day |-> 0 - 719529, ms |-> 86399999]}

Headers ==
  {<<>>, <<"a">>, <<".">>, <<"a", ".", "b">>, <<"<", "m", "@", "x", ".", "y", ">">>}

RawIds ==
  {Rep("x", n) : n \in {0, 1, 19, 20, 21}} \cup {Rep(".", n) : n \in {1, 19, 20, 21}}
    \cup {Rep("x", 19) \o <<c>> \o h : c \in {".", "-"}, h \in {<<>>, <<"a", ".", "b">>}}
    \cup {Rep("9", 19) \o <<".">> \o <<"<", "m", ">">>}

InitCodec ==
  /\ InitImap(InitFolderList, InitMbox)
  /\ lim = [sessions |-> 0, calls |-> 0, paths |-> {}, fns |-> [p \in Procs |-> {}]]
  /\ codec \in {[NoCodec EXCEPT !.t = t, !.h = h, !.raw = r] :
                  t \in Timestamps, h \in Headers, r \in RawIds}
  /\ listing = NoListing
  /\ finding = NoFinding
  /\ classified = NoClassified

Codec(c) ==
  /\ codec' = c
  /\ UNCHANGED <<client, sst, lockHolder, selected, folderList, mbox, uidNext, removed,
                 taken, calls, lim, proc, ev, listing, finding, classified>>

Parsed(op, r) ==
  [codec EXCEPT !.op = op, !.ok = r.ok, !.date = r.date, !.messageId = r.messageId]

Build ==
  /\ codec.op = "none"
  /\ Codec([codec EXCEPT !.op = "built", !.id = buildCompositeId(codec.t, codec.h)])

Parse ==
  /\ codec.op = "built"
  /\ Codec(Parsed("parsed", parseCompositeId(codec.id)))

ParseRaw ==
  /\ codec.op = "none"
  /\ Codec(Parsed("parsedRaw", parseCompositeId(codec.raw)))

NextCodec == Build \/ Parse \/ ParseRaw

SpecCodec == InitCodec /\ [][NextCodec]_vars

\* The tools as the CallTool request handler calls them: with the identifier
\* of a message, of the draft, of no message, a malformed one and none, with
\* a name that has no handler, on a server with and without a drafts folder,
\* while another call moves the draft.
UnknownTool == "nonexistent_tool"

InitTool ==
  /\ \E list \in {InitFolderList, SubSeq(InitFolderList, 1, 1)} : InitServer(list, InitMbox)
  /\ lim = [sessions |-> OpSessions, calls |-> OpCalls, paths |-> {"Drafts"},
            ids |-> Ids \cup {[kind |-> "header", val |-> 0], NoId},
            fns |-> [p \in Procs |-> IF p = 1 THEN {"move_email", "star_email", "update_draft",
                                                     UnknownTool}
                                             ELSE {"moveEmail"}]]

SpecTool == InitTool /\ [][NextOps]_vars

\* Operations that hold one lock, called by two callers for the same folder,
\* under fair scheduling: a connect attempt and a command are eventually
\* answered (the server returns or fails), a lock request on a session that
\* has closed or for a folder that does not exist is eventually rejected, and
\* a lock request on a live session is eventually granted if the lock stays
\* free (the library queues the request until then; it may also reject it at
\* any time, which no fairness condition demands).
InitLive ==
  /\ InitState
  /\ lim = [sessions |-> OpSessions, calls |-> OpCalls, paths |-> {"INBOX"},
            fns |-> [p \in Procs |-> IF p = 1 THEN {"fetchEmailContent"} ELSE {"starEmail"}]]

NextLive ==
  \/ \E p \in Procs : Start(p)
  \/ \E p \in Procs : ConnectOk(p)
  \/ \E p \in Procs : ConnectFail(p)
  \/ \E p \in Procs : LockOk(p)
  \/ \E p \in Procs : LockFail(p)
  \/ \E p \in Procs : CmdOk(p)
  \/ \E p \in Procs : CmdFail(p)
  \/ \E s \in Sessions : SignalClose(s)

\* getMailboxLock on a session that cannot grant it any more is rejected.
LockLost(p) ==
  /\ proc[p].pc = "locking"
  /\ sst[proc[p].cl] # "live" \/ proc[p].path \notin Listed
  /\ LockFail(p)

Fairness ==
  \A p \in Procs :
    /\ WF_vars(ConnectOk(p) \/ ConnectFail(p))
    /\ WF_vars(CmdOk(p) \/ CmdFail(p))
    /\ WF_vars(LockOk(p))
    /\ WF_vars(LockLost(p))

SpecLive == InitLive /\ [][NextLive]_vars /\ Fairness

\* ------------------------------------------------------ the listing operations
\* listEmails, listEmailsFromDomain, listEmailsFromSender, listStarredEmails
\* and listInboxMessages on their own: the answer of search, the envelope
\* dates and the order in which the fetch answers arrive are given.
NListed == 3
ListedUids == 1..NListed

\* uids.sort((a, b) => b - a): the UIDs from the highest to the lowest.
RECURSIVE sortUids(_)
sortUids(uids) ==
  IF uids = <<>> THEN <<>>
  ELSE LET hi == MaxOf({uids[i] : i \in 1..Len(uids)})
       IN <<hi>> \o sortUids(SelectSeq(uids, LAMBDA u : u # hi))

sliceAll(uids, count) == uids

\* Array.prototype.slice(0, count).
sliceCount(uids, count) ==
  SubSeq(uids, 1, IF count < 0 THEN (IF Len(uids) + count < 0 THEN 0 ELSE Len(uids) + count)
                  ELSE IF count < Len(uids) THEN count ELSE Len(uids))

\* client.fetch(range): the messages of the range, in the server's order.
fetch(range, yield) ==
  SelectSeq(yield, LAMBDA u : \E i \in 1..Len(range) : range[i] = u)

\* The Message-ID header of the message with a UID.
MessageIdOf(uid) == <<"<", "m", Digits[uid + 1], ">">>

\* One entry of the result (subject and sender left out; uid names the message
\* the entry was made from).  envelope.date is <<>> when the envelope has none.
EmailEntry(uid, date) ==
  [id |-> buildCompositeId(IF date # <<>> THEN date[1] ELSE [day |-> 0, ms |-> 0],
                           MessageIdOf(uid)),
   date |-> IF date # <<>> THEN toISOString(date[1]) ELSE <<>>,
   uid |-> uid]

DigitValue(c) == CHOOSE i \in 0..9 : Digits[i + 1] = c

RECURSIVE ToNumber(_)
ToNumber(str) ==
  IF str = <<>> THEN 0
  ELSE ToNumber(SubSeq(str, 1, Len(str) - 1)) * 10 + DigitValue(str[Len(str)])

\* The day number of a UTC calendar date.
DayNumber(year, month, day) ==
  LET y == IF month <= 2 THEN year - 1 ELSE year
      era == y \div 400
      yoe == y - era * 400
      mp == IF month > 2 THEN month - 3 ELSE month + 9
      doy == (153 * mp + 2) \div 5 + day - 1
  IN era * 146097 + yoe * 365 + yoe \div 4 - yoe \div 100 + doy - 719468

\* new Date(str).getTime() of a string in the toISOString format, as the day
\* and the millisecond in the day.
getTime(str) ==
  LET ext == str[1] \in {"+", "-"}
      y == IF ext THEN ToNumber(Slice(str, 1, 7)) * (IF str[1] = "-" THEN 0 - 1 ELSE 1)
           ELSE ToNumber(Slice(str, 0, 4))
      r == IF ext THEN SliceFrom(str, 7) ELSE SliceFrom(str, 4)
  IN [day |-> DayNumber(y, ToNumber(Slice(r, 1, 3)), ToNumber(Slice(r, 4, 6))),
      ms |-> ((ToNumber(Slice(r, 7, 9)) * 60 + ToNumber(Slice(r, 10, 12))) * 60
                + ToNumber(Slice(r, 13, 15))) * 1000 + ToNumber(Slice(r, 16, 19))]

\* a.date ? new Date(a.date).getTime() : 0
TimeOf(e) == IF e.date # <<>> THEN getTime(e.date) ELSE [day |-> 0, ms |-> 0]

Before(t, u) == t.day < u.day \/ (t.day = u.day /\ t.ms < u.ms)

\* The comparator (a, b) => db - da: negative (a first) when a is later.
compareAscending(a, b) ==
  IF Before(TimeOf(a), TimeOf(b)) THEN 0 - 1 ELSE IF Before(TimeOf(b), TimeOf(a)) THEN 1 ELSE 0

compareDates(a, b) ==
  IF Before(TimeOf(b), TimeOf(a)) THEN 0 - 1 ELSE IF Before(TimeOf(a), TimeOf(b)) THEN 1 ELSE 0

\* results.sort(compare): Array.prototype.sort is stable.
RECURSIVE sortResults(_)
sortResults(results) ==
  IF results = <<>> THEN <<>>
  ELSE LET h == Head(results)
           rest == sortResults(Tail(results))
           ahead == {i \in 1..Len(rest) : \A j \in 1..i : compareDates(rest[j], h) < 0}
           n == Cardinality(ahead)
       IN SubSeq(rest, 1, n) \o <<h>> \o SubSeq(rest, n + 1, Len(rest))

\* The body the listing operations share, after the lock is held: search,
\* sort the UIDs, fetch the envelopes, sort the entries.
listed(l, op, count, range) ==
  LET arrived == fetch(range, l.yield)
      results == [i \in 1..Len(arrived) |-> EmailEntry(arrived[i], l.dates[arrived[i]])]
  IN [l EXCEPT !.op = op, !.count = count, !.fetched = range,
               !.results = sortResults(results)]

listEmails(l, op) ==
  IF l.found = <<>> THEN [l EXCEPT !.op = op]
  ELSE listed(l, op, 0, sortUids(l.found))

listInboxMessages(l, count) ==
  IF l.found = <<>> THEN [l EXCEPT !.op = "listInboxMessages", !.count = count]
  ELSE listed(l, "listInboxMessages", count, sliceCount(sortUids(l.found), count))

\* 1970-01-01T00:00:00.000, 1970-01-01T00:00:00.001, 1969-12-31T23:59:59.999
\* and 2026-02-12T14:30:25.123, or no date in the envelope.
EnvelopeDates ==
  {<<>>} \cup {<<t>> : t \in {[day |-> 0, ms |-> 0], [day |-> 0, ms |-> 1],
                              [day |-> 0 - 1, ms |-> 86399999],
                              [day |-> 20496, ms |-> 52225123]}}

\* The sequences without repetition over a set.
Arrangements(S) ==
  {q \in UNION {[1..n -> S] : n \in 0..Cardinality(S)} :
     \A i, j \in 1..Len(q) : i # j => q[i] # q[j]}

PlainListOps == {"listEmails", "listEmailsFromDomain", "listEmailsFromSender",
                 "listStarredEmails"}

\* The tool requires n >= 1.
Counts == 1..(NListed + 1)

InitList ==
  /\ InitImap(InitFolderList, InitMbox)
  /\ lim = [sessions |-> 0, calls |-> 0, paths |-> {}, fns |-> [p \in Procs |-> {}]]
  /\ codec = NoCodec
  /\ listing \in {[NoListing EXCEPT !.dates = d, !.found = f, !.yield = y] :
                    d \in [ListedUids -> EnvelopeDates], f \in Arrangements(ListedUids),
                    y \in {q \in Arrangements(ListedUids) : Len(q) = NListed}}
  /\ finding = NoFinding
  /\ classified = NoClassified

Listing(l) ==
  /\ listing.op = "none"
  /\ listing' = l
  /\ UNCHANGED <<client, sst, lockHolder, selected, folderList, mbox, uidNext, removed,
                 taken, calls, lim, proc, ev, codec, finding, classified>>

ListEmails == \E op \in PlainListOps : Listing(listEmails(listing, op))

ListInboxMessages == \E count \in Counts : Listing(listInboxMessages(listing, count))

NextList == ListEmails \/ ListInboxMessages

SpecList == InitList /\ [][NextList]_vars

\* -------------------------------------------- findDraftsFolder on its own
\* The folder list client.list() answers with is given.
Mailbox(path, name, specialUse) == [path |-> path, name |-> name, specialUse |-> specialUse]

Mailboxes ==
  {Mailbox("INBOX", "INBOX", "\\Inbox"), Mailbox("Sent", "Sent", ""),
   Mailbox("[Gmail]/Drafts", "Drafts", "\\Drafts"), Mailbox("Entwuerfe", "Entwuerfe", "\\Drafts"),
   Mailbox("Drafts", "Drafts", ""), Mailbox("INBOX.drafts", "drafts", ""),
   Mailbox("Old/DRAFTS", "DRAFTS", ""), Mailbox("Notes/My Drafts", "My Drafts", "")}

MaxListed == 3

FolderLists ==
  {q \in UNION {[1..n -> Mailboxes] : n \in 0..MaxListed} :
     \A i, j \in 1..Len(q) : i # j => q[i] # q[j]}

InitFind ==
  /\ \E list \in FolderLists : InitImap(list, {})
  /\ lim = [sessions |-> 0, calls |-> 0, paths |-> {}, fns |-> [p \in Procs |-> {}]]
  /\ codec = NoCodec
  /\ listing = NoListing
  /\ finding = NoFinding
  /\ classified = NoClassified

FindDraftsFolder ==
  /\ finding.op = "none"
  /\ LET df == findDraftsFolder(folderList)
     IN finding' = IF df # NoFolder THEN [op |-> "returned", path |-> df, error |-> NoError]
                   ELSE [op |-> "thrown", path |-> NoFolder, error |-> E_NODRAFTS]
  /\ UNCHANGED <<client, sst, lockHolder, selected, folderList, mbox, uidNext, removed,
                 taken, calls, lim, proc, ev, codec, listing, classified>>

NextFind == FindDraftsFolder

SpecFind == InitFind /\ [][NextFind]_vars

\* -------------------------------------------------------------- properties
DraftsPath == findDraftsFolder(folderList)
InDrafts(mid) == mid # 0 /\ \E m \in mbox : m.mid = mid /\ m.f = DraftsPath
TakenByOther(call, mid) == \E t \in taken : t.mid = mid /\ t.by # call

\* C1: the only messages ever removed from the mailbox lie in the drafts
\* folder: no operation removes a message of any other folder.
C1_OnlyDraftsRemoved == \A r \in removed : r.f = DraftsPath

\* C2: an operation sends a folder command only while it holds the lock it
\* acquired, it has released every lock it acquired when it returns or throws
\* (as many releases as acquisitions, none left held), and an idle caller
\* holds no lock.
C2_LocksReleased ==
  /\ \A p \in Procs :
       /\ proc[p].pc = "cmd" => proc[p].lk # NoSession /\ proc[p].nAcq = proc[p].nRel + 1
       /\ proc[p].lk = NoSession => proc[p].nAcq = proc[p].nRel
       /\ proc[p].fn = "idle" => \A s \in Sessions : lockHolder[s] # p
  /\ ev.type \in {"return", "throw"} => ~ev.held /\ ev.nRel = ev.nAcq

\* An updateDraft whose delete command failed: both of its locks were released.
C2_Witness == ev.type = "throw" /\ ev.nAcq = 2 /\ ev.nRel = 2

\* C3: one openMailbox call asks for the lock at most twice and reconnects at
\* most once; the retry follows a connection-related failure of the first
\* attempt, empties the cache and creates one new session, on which the second
\* attempt is made; a failure of the second attempt is thrown as it was raised.
C3_RetryOnce ==
  /\ \A p \in Procs :
       /\ proc[p].nLock <= 2 /\ proc[p].nReconn <= 1
       /\ proc[p].att = 2 => proc[p].nReconn = 1
       /\ proc[p].att = 2 /\ proc[p].pc = "locking" =>
            proc[p].nLock = 2 /\ proc[p].cl # proc[p].first
  /\ ev.nLock <= 2 /\ ev.nReconn <= 1
  /\ ev.type = "retry" =>
       /\ ev.retryable /\ ev.entry = NoSession /\ client = NoSession
       /\ ev.created # NoSession /\ sst[ev.created] = "connecting"
  /\ ev.failed = "2" => ev.type = "throw" /\ ev.same /\ ev.nLock = 2 /\ ev.nReconn = 1

\* The second lock attempt failed and its error left openMailbox.
C3_Witness == ev.failed = "2" /\ ev.type = "throw" /\ ev.same /\ ev.nReconn = 1

\* C4: a first lock failure that is not connection-related is thrown in the
\* same step as it was raised, after one lock attempt, without a connect()
\* call or a reconnect, and the cache is left as it was.
C4_OtherErrorsRethrown ==
  /\ ev.failed = "1" /\ ~ev.retryable =>
       /\ ev.type = "throw" /\ ev.same /\ ev.nLock = 1 /\ ev.nReconn = 0
       /\ ~ev.called /\ ev.created = NoSession /\ ev.keptCache
  /\ ev.failed = "1" /\ ev.type = "throw" => ~ev.retryable

\* A mailbox error on the first attempt was rethrown while a session is cached.
C4_Witness ==
  /\ ev.failed = "1" /\ ev.type = "throw" /\ ~ev.retryable
  /\ client # NoSession /\ sst[client] = "live"

\* C5: after a close or error signal the cache is empty; a connect() call that
\* finds the cache empty creates a new transport, and connect() only ever
\* returns a live session, never one that has signalled.
C5_SignalClearsCache ==
  /\ ev.type \in {"error", "close"} => client = NoSession
  /\ ev.called /\ ev.entry = NoSession =>
       ev.ret = NoSession /\ ev.created # NoSession /\ sst[ev.created] = "connecting"
  /\ ev.ret # NoSession => sst[ev.ret] = "live"

\* A session was cached and closed; the next connect() creates another one.
C5_Witness ==
  /\ ev.called /\ ev.entry = NoSession /\ ev.created # NoSession
  /\ \E s \in Sessions : sst[s] = "closed" /\ s # ev.created

\* C6: a connect() call that finds a cached session whose usability check
\* fails returns nothing of it: the cache is emptied and a new transport is
\* created, and the session handed out when that transport has connected is
\* the live, newly cached one.
C6_UnusableCacheDiscarded ==
  /\ ev.called /\ ev.entry # NoSession /\ ~ev.entryUsable =>
       /\ ev.ret = NoSession /\ client = NoSession
       /\ ev.created # NoSession /\ ev.created # ev.entry
  /\ ev.called /\ ev.ret # NoSession => ev.entryUsable
  /\ ev.type = "connected" => ev.ret = client /\ sst[ev.ret] = "live"

\* connect() found the cached session unusable and created another transport.
C6_Witness ==
  /\ ev.called /\ ev.entry # NoSession /\ ~ev.entryUsable
  /\ ev.created # NoSession /\ sst[ev.entry] = "stale"

\* C7: at most one transport is open or being opened at any time.
C7_OneTransport == Cardinality({s \in Sessions : sst[s] \in {"connecting", "live"}}) <= 1

\* C8: when the transport's connect fails, connect() throws the classified
\* error (not the raw one), the step leaves the cache as it was, a failed
\* transport is never the cached session, and a connect() call that finds the
\* cache empty makes a fresh attempt.
C8_FailedConnectNotCached ==
  /\ ev.failed = "c" => ev.type = "throw" /\ ev.classified /\ ~ev.same /\ ev.keptCache
  /\ client # NoSession => sst[client] \notin {"none", "connecting", "failed"}
  /\ ev.called /\ ev.entry = NoSession /\ (\E s \in Sessions : sst[s] = "failed") =>
       ev.created # NoSession /\ sst[ev.created] = "connecting"

\* A connect() after a failed one starts a fresh transport.
C8_Witness ==
  /\ ev.called /\ ev.created # NoSession /\ client = NoSession
  /\ \E s \in Sessions : sst[s] = "failed"

\* C9: a connect() call that finds the cached session usable returns that
\* session, creates no transport and leaves the cache as it was; a transport
\* is created only by a call that found no usable cached session.
C9_UsableCacheReused ==
  /\ ev.called /\ ev.entryUsable =>
       /\ ev.ret = ev.entry /\ ev.ret = client
       /\ ev.created = NoSession /\ ev.keptCache
  /\ ev.called /\ ev.created # NoSession => ~ev.entryUsable

\* A second operation got the cached session from connect().
C9_Witness ==
  /\ ev.called /\ ev.entryUsable /\ ev.ret # NoSession /\ ev.ret = ev.entry
  /\ calls = 2

\* updateDraft sends its delete only in the stage it enters after its append
\* has been answered with success.
AppendBeforeDelete ==
  /\ \A p \in Procs :
       proc[p].fn = "updateDraft" =>
         /\ proc[p].stage = "delete" => proc[p].newMid # 0
         /\ proc[p].cmd = "delete" => proc[p].stage = "delete"
  /\ ev.cmd = "delete" => ev.new # 0

\* C10 as stated: the append precedes the delete, and in every state during
\* and at the end of an updateDraft call that verified its draft, the drafts
\* folder holds the old draft or the new one, whatever other calls do.
C10_OldOrNewInDrafts ==
  /\ AppendBeforeDelete
  /\ \A p \in Procs :
       proc[p].oldMid # 0 => InDrafts(proc[p].oldMid) \/ InDrafts(proc[p].newMid)
  /\ ev.old # 0 => InDrafts(ev.old) \/ InDrafts(ev.new)

\* C10 amended: the append precedes the delete, and the drafts folder holds
\* the old draft or the new one in every state during and at the end of the
\* call, unless another call has itself moved or deleted one of the two.
C10_ReplaceKeepsDraft ==
  /\ AppendBeforeDelete
  /\ \A p \in Procs :
       proc[p].oldMid # 0 =>
         \/ InDrafts(proc[p].oldMid) \/ InDrafts(proc[p].newMid)
         \/ TakenByOther(proc[p].call, proc[p].oldMid)
         \/ TakenByOther(proc[p].call, proc[p].newMid)
  /\ ev.old # 0 =>
       \/ InDrafts(ev.old) \/ InDrafts(ev.new)
       \/ TakenByOther(ev.call, ev.old) \/ TakenByOther(ev.call, ev.new)

\* A replace ran to its end: the old draft is gone, the new one is in Drafts.
C10_Witness ==
  /\ ev.type = "return" /\ ev.cmd = "delete" /\ ev.old # 0 /\ ev.new # 0
  /\ ~InDrafts(ev.old) /\ InDrafts(ev.new)
  /\ \E r \in removed : r.mid = ev.old

\* C11: an update_draft call whose identifier names no message of the drafts
\* folder (when its search of that folder is answered) sends no append and no
\* delete command, and if it returns, it returns the scoping error.
C11_NotInDraftsNoCommands ==
  /\ \A p \in Procs :
       proc[p].tool = "update_draft" /\ proc[p].inDrafts = "no" =>
         proc[p].nApp = 0 /\ proc[p].nDel = 0
  /\ ev.tool = "update_draft" /\ ev.inDrafts = "no" =>
       /\ ev.nApp = 0 /\ ev.nDel = 0
       /\ ev.type = "return" => ev.result = "Draft not found"

\* When updateDraft throws after its append has succeeded (the delete's lock
\* or the delete command threw), the call is over, it has sent one append and
\* at most one delete, it has removed neither draft, and the old and the new
\* draft are both in the drafts folder unless another call has moved or
\* deleted them.
ThrownDeleteKeepsBoth ==
  ev.type = "throw" /\ ev.new # 0 =>
    /\ proc[ev.p].fn = "idle" /\ ev.nApp = 1 /\ ev.nDel <= 1
    /\ \A t \in taken : t.by = ev.call => t.mid \notin {ev.old, ev.new}
    /\ InDrafts(ev.new) \/ TakenByOther(ev.call, ev.new)
    /\ ev.old # 0 => InDrafts(ev.old) \/ TakenByOther(ev.call, ev.old)

\* C12: when the delete step fails after a successful append, updateDraft
\* fails: a delete command that was not performed never ends in a return;
\* and a thrown failure leaves both drafts, with no compensating command.
C12_FailedDeleteFails ==
  /\ ThrownDeleteKeepsBoth
  /\ ev.cmd = "delete" /\ ~ev.done => ev.type = "throw"

\* C13: when updateDraft returns, the new draft is in the drafts folder
\* (unless another call has moved or deleted it since) and the old draft is
\* not: exactly one of the two remains.
C13_ExactlyOneRemains ==
  ev.type = "return" /\ ev.cmd = "delete" /\ ev.old # 0 =>
    /\ InDrafts(ev.new) \/ TakenByOther(ev.call, ev.new)
    /\ ~InDrafts(ev.old)

\* The message with this Message-ID lies in folder f under this UID.
At(mid, f, uid) == \E m \in mbox : m.mid = mid /\ m.f = f /\ m.uid = uid

\* C14: whatever moves came before, when resolveEmailId returns for the
\* identifier of a message, with no hint or a hint whose folder does not hold
\* the message, the folder it returns holds the message, under the UID it
\* returns.
C14_ResolvesCurrentLocation ==
  /\ ev.type = "return" /\ ev.tool = "resolveEmailId"
  /\ ev.hint = NoFolder \/ ~\E m \in mbox : m.mid = ev.id.val /\ m.f = ev.hint
  => At(ev.id.val, ev.rBox, ev.rUid)
\* C15: a resolveEmailId call given a hint whose folder held the message when
\* its first search was answered ends with that search: it does not go on to
\* INBOX or to the folder list, and it returns the hint folder with the UID
\* the message has there.
C15_HintHitOneSearch ==
  /\ \A p \in Procs :
       proc[p].tool = "resolveEmailId" /\ proc[p].hint # NoFolder /\ proc[p].tried # <<>> =>
         ~proc[p].tried[1].had
  /\ ev.tool = "resolveEmailId" /\ ev.hint # NoFolder /\ ev.tried # <<>> /\ ev.tried[1].had =>
       /\ ev.type = "return" /\ Len(ev.tried) = 1 /\ ev.nList = 0
       /\ ev.rBox = ev.hint /\ At(ev.id.val, ev.hint, ev.rUid)
\* The order in which resolveEmailId is to search: the hint, INBOX, then the
\* other listed folders as listed.
SearchOrder(hint, list) ==
  LET Other(i) == list[i].path \notin {hint, "INBOX"}
      others == SelectSeq([i \in 1..Len(list) |-> i], Other)
  IN (IF hint # NoFolder THEN <<hint>> ELSE <<>>)
       \o (IF hint # "INBOX" THEN <<"INBOX">> ELSE <<>>)
       \o [k \in 1..Len(others) |-> list[others[k]].path]

FoldersOf(tried) == [i \in 1..Len(tried) |-> tried[i].f]
IsPrefix(a, b) == Len(a) <= Len(b) /\ \A i \in 1..Len(a) : a[i] = b[i]

\* The searches of a resolveEmailId call follow the search order; every search
\* but the last found nothing; the call returns exactly when its last search
\* found the message, with that search's folder; and it throws not-found only
\* when every folder of the order has been searched and none of the searches
\* found the message.
ResolveOrder ==
  /\ \A p \in Procs :
       proc[p].tool = "resolveEmailId" =>
         /\ IsPrefix(FoldersOf(proc[p].tried), SearchOrder(proc[p].hint, folderList))
         /\ \A i \in 1..Len(proc[p].tried) : ~proc[p].tried[i].got
  /\ ev.tool = "resolveEmailId" =>
       LET n == Len(ev.tried)
       IN /\ IsPrefix(FoldersOf(ev.tried), SearchOrder(ev.hint, folderList))
          /\ \A i \in 1..(n - 1) : ~ev.tried[i].got
          /\ ev.type = "return" <=> (n > 0 /\ ev.tried[n].got)
          /\ ev.type = "return" => ev.rBox = ev.tried[n].f
          /\ ev.result = "not found" =>
               FoldersOf(ev.tried) = SearchOrder(ev.hint, folderList)

\* C16: when the hint folder does not hold the message, resolveEmailId does
\* not return from the hint search but goes on to INBOX and the other listed
\* folders in listing order, returns at the first match, and throws not-found
\* only after every folder has been searched without a match.
C16_StaleHintFallsBack ==
  /\ ResolveOrder
  /\ ev.tool = "resolveEmailId" /\ ev.hint # NoFolder /\ ev.type = "return"
       /\ ~ev.tried[1].had => Len(ev.tried) > 1
BulkTool == "bulk_move_by_sender_email"

\* C20: a bulk move sends its one search under the lock of the source
\* folder and at most one move, the move only after the search matched
\* something; when it reports a count, the search matched that many messages
\* (at least one) and one move was sent; when the search matched nothing, no
\* move was sent and the tool's result is the "No emails from" error, never a
\* count.
C20_BulkMoveOneSearchOneMove ==
  /\ \A p \in Procs :
       proc[p].tool = BulkTool =>
         /\ proc[p].nSearch <= 1 /\ proc[p].nMove <= 1
         /\ proc[p].pc = "cmd" =>
              /\ proc[p].path = proc[p].src /\ proc[p].lk # NoSession
              /\ proc[p].nSearch = 1
              /\ proc[p].cmd = "move" <=> proc[p].nMove = 1
              /\ proc[p].cmd = "move" <=> proc[p].uids # {}
  /\ ev.tool = BulkTool /\ ev.type = "return" =>
       /\ ev.result = "json" <=> ev.nMove = 1
       /\ ev.result = "json" =>
            /\ ev.nSearch = 1 /\ ev.cmd = "move"
            /\ ev.uids # {} /\ ev.count = Cardinality(ev.uids)
       /\ ev.nSearch = 1 /\ ev.uids = {} =>
            ev.nMove = 0 /\ ev.cmd = "search" /\ ev.result = "No emails from"
       /\ ev.nSearch = 0 => ev.nMove = 0 /\ ev.result # "json"

\* A bulk move whose search of an existing source folder matched nothing
\* ended with the error result, without a move.
C20_Witness ==
  /\ ev.tool = BulkTool /\ ev.type = "return" /\ ev.result = "No emails from"
  /\ ev.nSearch = 1 /\ ev.nMove = 0 /\ ev.src = "INBOX" /\ ev.dest = "Drafts"

\* A bulk move moved both messages of the sender with one command.
BulkMovedTwo ==
  /\ ev.tool = BulkTool /\ ev.type = "return" /\ ev.result = "json" /\ ev.count = 2
  /\ ev.nMove = 1 /\ \A m \in mbox : m.mid \in {1, 5} => m.f = "Drafts"
\* The timestamp in UTC without its fraction of a second: YYYY-MM-DDTHH:mm:ss
\* of the whole seconds it has passed.
UtcSeconds(t) ==
  LET c == YearMonthDay(t.day)
      sec == (t.ms - (t.ms % 1000)) \div 1000
  IN Pad(c.year, 4) \o <<"-">> \o Pad(c.month, 2) \o <<"-">> \o Pad(c.day, 2) \o <<"T">>
       \o Pad(sec \div 3600, 2) \o <<":">> \o Pad((sec \div 60) % 60, 2) \o <<":">>
       \o Pad(sec % 60, 2)

InYears(t) == YearMonthDay(t.day).year \in 0..9999

\* C17: for a timestamp of the years 0000 to 9999 and any header value,
\* parsing the built identifier succeeds and gives the timestamp in UTC cut to
\* whole seconds, 19 characters long, and the header value as it was given.
C17_RoundTrip ==
  codec.op = "parsed" /\ InYears(codec.t) =>
    /\ codec.ok /\ Len(codec.date) = 19
    /\ codec.date = UtcSeconds(codec.t)
    /\ codec.messageId = codec.h

\* The last millisecond of the year 9999 with a header value holding a dot
\* went through the round trip.
C17_Witness ==
  /\ codec.op = "parsed" /\ codec.ok /\ codec.messageId = <<"a", ".", "b">>
  /\ codec.t = [day |-> 2932896, ms |-> 86399999]
  /\ codec.date = <<"9", "9", "9", "9", "-", "1", "2", "-", "3", "1", "T",
                     "2", "3", ":", "5", "9", ":", "5", "9">>

\* The string the last parse was given.
ParsedInput == IF codec.op = "parsed" THEN codec.id ELSE codec.raw

\* C18: parseCompositeId fails exactly when its input has fewer than 20
\* characters or a 20th character other than '.'; otherwise it returns the
\* first 19 characters and all that follows the 20th, whatever they are.
C18_ParseFormatOnly ==
  codec.op \in {"parsed", "parsedRaw"} =>
    /\ ~codec.ok <=> (Len(ParsedInput) < 20 \/ ParsedInput[20] # ".")
    /\ codec.ok =>
         /\ codec.date = SubSeq(ParsedInput, 1, 19)
         /\ codec.messageId = SubSeq(ParsedInput, 21, Len(ParsedInput))

\* A string whose first 19 characters are no date was parsed with success.
C18_Witness ==
  /\ codec.op = "parsedRaw" /\ codec.ok /\ codec.date = Rep("x", 19)
  /\ codec.messageId = <<"a", ".", "b">>
Flagged(mid) == \E m \in mbox : m.mid = mid /\ m.flagged

Epoch == [day |-> 0, ms |-> 0]
\* The envelope date of the message an entry was made from.
EntryTime(e) == IF listing.dates[e.uid] = <<>> THEN Epoch ELSE listing.dates[e.uid][1]
YieldAt(uid) == CHOOSE i \in 1..Len(listing.yield) : listing.yield[i] = uid
FoundUids == {listing.found[i] : i \in 1..Len(listing.found)}
FetchedUids == {listing.fetched[i] : i \in 1..Len(listing.fetched)}
ResultUids == {listing.results[i].uid : i \in 1..Len(listing.results)}

\* The entries are those of the messages fetched, one each, and each carries
\* the date of its message.
ResultsAreFetched ==
  /\ ResultUids = FetchedUids
  /\ Len(listing.results) = Cardinality(FetchedUids)
  /\ \A i \in 1..Len(listing.results) :
       LET e == listing.results[i]
           d == listing.dates[e.uid]
       IN e.date = (IF d = <<>> THEN <<>> ELSE toISOString(d[1]))

\* Later timestamps come first, an entry without a date counting as the
\* epoch; entries with the same timestamp are in the order the fetch yielded
\* them.
OrderedByTimestamp ==
  \A i, j \in 1..Len(listing.results) :
    i < j =>
      LET a == listing.results[i]
          b == listing.results[j]
      IN /\ ~Before(EntryTime(a), EntryTime(b))
         /\ EntryTime(a) = EntryTime(b) => YieldAt(a.uid) < YieldAt(b.uid)

\* Claim C22, as amended: every listing operation returns the entries of the
\* fetched messages ordered by timestamp descending, whatever the order of
\* the UIDs in the search answer and of the fetch answers; an entry without a
\* timestamp is ordered as if dated at the epoch (after every later date,
\* before every date earlier than 1970), and entries with equal timestamps
\* keep their fetch order.
C22_ListingOrder ==
  listing.op # "none" =>
    /\ ResultsAreFetched
    /\ OrderedByTimestamp
    /\ listing.op \in PlainListOps => FetchedUids = FoundUids

\* Claim C22, witness: a listing of three messages whose search answer is
\* ascending and whose fetch answers arrive in yet another order, with two
\* entries of the same timestamp, of which one has no date.
C22_Witness ==
  /\ listing.op = "listStarredEmails"
  /\ listing.found = <<1, 2, 3>>
  /\ listing.yield = <<2, 3, 1>>
  /\ Len(listing.results) = 3
  /\ listing.results[1].uid = 1
  /\ listing.results[2].uid = 2 /\ listing.results[2].date = <<>>
  /\ listing.results[3].uid = 3 /\ EntryTime(listing.results[3]) = Epoch
  /\ listing.results[3].date # <<>>

\* Claim C22, as stated: in addition, the entries without a timestamp are the
\* last ones (only entries dated at the epoch may follow them).
C22_UndatedLast ==
  C22_ListingOrder
    /\ \A i, j \in 1..Len(listing.results) :
         i < j /\ listing.results[i].date = <<>> => EntryTime(listing.results[j]) = Epoch


\* Claim C23: listInboxMessages(count) fetches exactly the min(count, total)
\* highest UIDs of the search answer (all of them when count >= total, and
\* nothing fails) and returns the entries of exactly these messages ordered by
\* timestamp descending: the UIDs decide which messages are listed, the
\* timestamps decide their order.
C23_InboxLastN ==
  listing.op = "listInboxMessages" =>
    LET total == Len(listing.found)
    IN /\ Cardinality(FetchedUids) = (IF listing.count < total THEN listing.count ELSE total)
       /\ Len(listing.fetched) = Cardinality(FetchedUids)
       /\ FetchedUids \subseteq FoundUids
       /\ \A u \in FetchedUids, v \in FoundUids \ FetchedUids : u > v
       /\ listing.count >= total => FetchedUids = FoundUids
       /\ ResultsAreFetched
       /\ OrderedByTimestamp

\* Claim C23, witness: two of three messages are asked for; the message with
\* the lowest UID has the latest date and is left out, and the two listed are
\* returned in the order of their dates, the reverse of their UIDs' order.
C23_Witness ==
  /\ listing.op = "listInboxMessages"
  /\ listing.count = 2
  /\ listing.found = <<1, 3, 2>>
  /\ listing.fetched = <<3, 2>>
  /\ listing.dates[1] = <<[day |-> 20496, ms |-> 52225123]>>
  /\ Len(listing.results) = 2
  /\ listing.results[1].uid = 2 /\ listing.results[2].uid = 3
  /\ Before(EntryTime(listing.results[2]), EntryTime(listing.results[1]))


\* ---------------------------------------------------------- findDraftsFolder
Marked(i) == folderList[i].specialUse = "\\Drafts"
CalledDrafts(i) == folderList[i].name \in {"Drafts", "drafts", "DRAFTS"}

\* Claim C24: findDraftsFolder returns the path of the first listed folder
\* that carries the \Drafts special-use marker, also when a folder named
\* 'drafts' is listed before it; when no folder carries the marker, the path
\* of the first folder whose name is 'drafts' in any letter case; and when
\* there is neither, it throws the error that points to list_folders.
C24_FindDraftsFolder ==
  finding.op # "none" =>
    LET n == Len(folderList)
    IN /\ (\E i \in 1..n : Marked(i)) =>
            /\ finding.op = "returned"
            /\ \E i \in 1..n : /\ Marked(i) /\ finding.path = folderList[i].path
                               /\ \A j \in 1..(i - 1) : ~Marked(j)
       /\ (\A i \in 1..n : ~Marked(i)) /\ (\E i \in 1..n : CalledDrafts(i)) =>
            /\ finding.op = "returned"
            /\ \E i \in 1..n : /\ CalledDrafts(i) /\ finding.path = folderList[i].path
                               /\ \A j \in 1..(i - 1) : ~CalledDrafts(j)
       /\ (\A i \in 1..n : ~Marked(i) /\ ~CalledDrafts(i)) =>
            finding.op = "thrown" /\ finding.error = E_NODRAFTS

\* Claim C24, witness: a folder named 'Drafts' without the marker is listed
\* first, two folders with the marker follow; the first of these is returned.
C24_Witness ==
  /\ Len(folderList) = 3
  /\ folderList[1].path = "Drafts" /\ ~Marked(1)
  /\ folderList[2].path = "Entwuerfe" /\ Marked(2)
  /\ folderList[3].path = "[Gmail]/Drafts" /\ Marked(3)
  /\ finding.op = "returned" /\ finding.path = "Entwuerfe"


\* --------------------------------------------------------- dispatch boundary
ToolCallEnded == ev.type \in {"return", "throw"} /\ ev.tool \in ToolNames \cup {UnknownTool}

\* Claim C25: every tool call that ends gives its requester a result.  What a
\* handler throws (from connect, from the lock, for a malformed identifier, a
\* message not found, a message outside the drafts folder, no drafts folder)
\* is caught by the request handler and returned with isError and the error's
\* message; a name without a handler and a missing required argument are
\* answered with an error result before anything is sent to the server.
C25_EveryCallYieldsResult ==
  ToolCallEnded =>
    /\ ev.isError \in {"yes", "no"}
    /\ ev.type = "throw" =>
         /\ ev.isError = "yes"
         /\ ev.error # NoError
         /\ ev.text = <<"Error executing", ev.tool>> \o ev.error.message
    /\ ev.tool = UnknownTool =>
         ev.type = "return" /\ ev.isError = "yes" /\ ev.text = <<"Unknown tool">>
                            /\ ev.nLock = 0 /\ ev.nList = 0
    /\ ev.tool \in ToolNames /\ (ev.id.kind = "none" \/ (ev.tool = "move_email" /\ ev.dest = NoFolder)) =>
         ev.type = "return" /\ ev.isError = "yes" /\ ev.text = <<"required">>
                            /\ ev.nLock = 0 /\ ev.nList = 0
    /\ ev.isError = "no" => ev.type = "return" /\ ev.error = NoError

\* Claim C25, witness: update_draft on a server without a drafts folder:
\* findDraftsFolder throws, the requester receives an error result with the
\* message.
C25_Witness ==
  /\ ev.tool = "update_draft" /\ ev.type = "throw"
  /\ ev.error = E_NODRAFTS
  /\ ev.isError = "yes"
  /\ ev.text = <<"Error executing", "update_draft", "Could not find Drafts folder">>


\* ------------------------------------------------------------------ no retry
Commands ==
  {"search", "fetch", "fetchOne", "move", "flagsAdd", "flagsRemove", "delete", "list", "append"}

\* Claim C26: a command is sent once.  When the promise of a search, fetch,
\* move, flag, delete, list or append command rejects, or flow.connect()
\* rejects, the operation ends in that step with the error (connect: with its
\* classification) and sends nothing more; only getMailboxLock is asked a
\* second time, once, after a retryable rejection of the first attempt, and a
\* rejection of the second attempt ends the operation.
C26_NoRetry ==
  /\ ev.rejected # "" =>
       /\ ev.rejected \in Commands
       /\ ev.type = "throw" /\ ev.error \in CmdErrors
       /\ proc[ev.p] = Idle
       /\ ~ev.called
  /\ ev.failed = "c" => ev.type = "throw" /\ proc[ev.p] = Idle /\ ev.classified
  /\ ev.failed = "2" => ev.type = "throw" /\ proc[ev.p] = Idle /\ ev.same
  /\ ev.failed = "1" =>
       \/ ev.type = "throw" /\ proc[ev.p] = Idle /\ ev.same /\ ~ev.retryable
       \/ ev.type = "retry" /\ ev.retryable /\ proc[ev.p].nReconn = 1
  /\ \A p \in Procs :
       /\ proc[p].nLock <= 2 /\ proc[p].nReconn <= 1
       /\ proc[p].nApp <= 1 /\ proc[p].nDel <= 1 /\ proc[p].nMove <= 1 /\ proc[p].nFlag <= 1

\* Claim C26, witness: the delete of updateDraft rejects after the append
\* succeeded: the call throws having sent one append and one delete.
C26_Witness ==
  /\ ev.rejected = "delete" /\ ev.type = "throw" /\ ev.error = E_RESET
  /\ ev.nApp = 1 /\ ev.nDel = 1 /\ proc[ev.p] = Idle


\* ----------------------------------------------------- session of a command
\* Claim C27: whenever an operation has a folder-scoped command in flight, the
\* command was sent on the session that granted the lock the operation
\* holds, and a command that is answered worked on the folder of that lock.
C27_CommandOnLockSession ==
  /\ \A p \in Procs : proc[p].pc = "cmd" => proc[p].cs = proc[p].lk
  /\ ev.type = "cmd" /\ ev.done => ev.on = ev.lock


\* ------------------------------------------------- signals of old sessions
\* Claim C28: a close or error signal of a session that is not the cached one
\* leaves the cache as it is; the cache is cleared only by a signal of the
\* cached session.
C28_OldSignalKeepsCache ==
  ev.type \in {"close", "error"} /\ ev.sig # ev.entry => ev.keptCache /\ client = ev.entry


\* ------------------------------------------------------ what the retry takes
\* The classes connection-refused, name-resolution-failure and timeout of
\* classifyImapError.
TransportClass(e) ==
  classifyImapError(e).message \in
    {<<"Cannot reach IMAP server">>, <<"Cannot resolve IMAP server hostname">>,
     <<"Connection to IMAP server timed out">>}

\* The server answered that the folder does not exist.
ServerSide(e) == e \in {E_NOMAILBOX, E_NOFOLDER}

\* Claim C29: the lock attempt is retried only after an error that
\* classifyImapError places in the connection-refused, name-resolution or
\* timeout class, and never after the server's 'does not exist' answer,
\* whatever words the answer contains.
C29_RetryByClassifier ==
  ev.type = "retry" => TransportClass(ev.error) /\ ~ServerSide(ev.error)


\* ------------------------------------------------- locks of resolveEmailId
HeldBy(p) == {s \in Sessions : lockHolder[s] = p}

\* Claim C30: a resolveEmailId call holds at most one folder lock at any
\* time; while it asks for a lock (connecting or waiting for the grant) and
\* while it waits for the folder list it holds none, every lock granted
\* before having been released; and when its search rejects, the lock of that
\* search has been released in the step in which the error leaves the call.
C30_OneLockAtATime ==
  /\ \A p \in Procs :
       proc[p].tool = "resolveEmailId" =>
         /\ Cardinality(HeldBy(p)) <= 1
         /\ proc[p].nAcq - proc[p].nRel \in {0, 1}
         /\ proc[p].pc \in {"connecting", "locking", "listing"} =>
              HeldBy(p) = {} /\ proc[p].nAcq = proc[p].nRel /\ proc[p].lk = NoSession
         /\ proc[p].pc = "cmd" => proc[p].nAcq = proc[p].nRel + 1 /\ proc[p].lk # NoSession
  /\ ev.tool = "resolveEmailId" /\ ev.type \in {"return", "throw"} =>
       ~ev.held /\ ev.nAcq = ev.nRel /\ HeldBy(ev.p) = {}

\* Claim C30, witness: the search of the second folder rejects: the call
\* throws having taken two locks and released two.
C30_Witness ==
  /\ ev.tool = "resolveEmailId" /\ ev.type = "throw" /\ ev.rejected = "search"
  /\ ev.nAcq = 2 /\ ev.nRel = 2 /\ ~ev.held /\ HeldBy(ev.p) = {}
  /\ Len(ev.tried) = 1


\* ------------------------------------------- searches of one resolveEmailId
Distinct(q) == \A i, j \in 1..Len(q) : i # j => q[i] # q[j]
Searched(tried) == {tried[i].f : i \in 1..Len(tried)}

\* Claim C31: a resolveEmailId call searches no folder twice: the folders of
\* its answered searches are distinct and the folder of a search it is about
\* to make or has in flight is none of them; it asks for the folder list at
\* most once, and only when the searches of the hint (if given) and of INBOX
\* have been answered without a match; it sends at most 2 + (number of listed
\* folders) searches.
C31_NoFolderSearchedTwice ==
  /\ \A p \in Procs :
       proc[p].tool = "resolveEmailId" =>
         /\ Distinct(FoldersOf(proc[p].tried))
         /\ proc[p].fn = "resolveInMailbox" => proc[p].path \notin Searched(proc[p].tried)
         /\ proc[p].nList <= 1
         /\ proc[p].nList = 1 =>
              /\ "INBOX" \in Searched(proc[p].tried)
              /\ proc[p].hint # NoFolder => proc[p].hint \in Searched(proc[p].tried)
              /\ \A i \in 1..Len(proc[p].tried) : ~proc[p].tried[i].got
         /\ proc[p].nSearch <= 2 + Len(folderList)
  /\ ev.tool = "resolveEmailId" /\ ev.type \in {"return", "throw"} =>
       /\ Distinct(FoldersOf(ev.tried))
       /\ ev.nList <= 1
       /\ ev.nSearch <= 2 + Len(folderList)
       /\ ev.nSearch <= Len(ev.tried) + 1

\* Claim C31, witness: called with the hint Archive for a message that is
\* nowhere, the call has searched Archive, INBOX and Drafts, one search each,
\* has listed the folders once and throws not-found.
C31_Witness ==
  /\ ev.tool = "resolveEmailId" /\ ev.type = "throw" /\ ev.result = "not found"
  /\ ev.hint = "Archive"
  /\ FoldersOf(ev.tried) = <<"Archive", "INBOX", "Drafts">>
  /\ ev.nSearch = 3 /\ ev.nList = 1


\* ------------------------------------------------------- no caller is stalled
\* Claim C32: under fair scheduling every caller that waits for a folder lock
\* eventually stops waiting (the lock is granted or the request fails), and
\* every lock that is held is eventually given back, also by an operation that
\* ends in an error.
C32_LockEventuallyAnswered ==
  \A p \in Procs :
    /\ (proc[p].pc = "locking") ~> (proc[p].pc # "locking")
    /\ \A s \in 1..OpSessions : (lockHolder[s] = p) ~> (lockHolder[s] # p)

\* Claim C32, witness: caller 2 waits for the lock of the session on which
\* caller 1 holds it.
C32_Witness ==
  /\ proc[2].pc = "locking" /\ proc[1].pc = "cmd"
  /\ proc[2].cl = proc[1].lk /\ lockHolder[proc[2].cl] = 1

\* The position of a listing call among its steps.
ListingCalls == {p \in Procs : proc[p].fn \in ListFns}

DraftsFoldersOf(r) == {r.hdf, r.df, r.adf} \ {NoFolder}

\* Claim C34: all steps of one update_draft call operate on a single drafts
\* folder: the folder in which the handler resolves the identifier, the folder
\* in which updateDraft verifies and deletes the old draft, and the folder to
\* which createDraft appends are the same path, also when the server's folder
\* list changes between the steps.
C34_SingleDraftsFolder ==
  /\ \A p \in Procs :
       proc[p].tool = "update_draft" => Cardinality(DraftsFoldersOf(proc[p])) <= 1
  /\ ev.tool = "update_draft" => Cardinality(DraftsFoldersOf(ev)) <= 1

\* Claim C35: a mutation tool changes only the message whose Message-ID
\* equals the header segment of the identifier it was given; an identifier
\* whose header segment is empty changes no message.
C35_OnlyIdentifiedMessage ==
  ev.tool \in MutationTools =>
    \A mid \in ev.changed : ev.id.kind = "header" /\ ev.id.val = mid

\* Claim C36: moveEmail and bulkMoveBySender report success (a destination,
\* a non-zero count) only if the server performed the move: a call whose move
\* command resolved with the failure value does not return normally.
C36_MovedOnlyIfDone ==
  ev.type = "return" /\ ev.cmd = "move" => ev.done

\* The tools that take an email identifier, called with every required
\* argument and an identifier that does not parse.
IdTools == ResolveTools \cup {"update_draft"}
BadIdCall(r) ==
  r.tool \in IdTools /\ r.id.kind = "bad" /\ ~MissingArgument(r.tool, r.id, r.dest)

\* No lock asked for or acquired, no search, fetch, move, flag, append or
\* delete command sent.
NoFolderWork(r) ==
  /\ r.nLock = 0 /\ r.nAcq = 0
  /\ r.nSearch = 0 /\ r.nFetch = 0 /\ r.nMove = 0 /\ r.nFlag = 0 /\ r.nApp = 0 /\ r.nDel = 0

\* The update_draft handler's findDraftsFolder failed: its connect() or its
\* list command rejected, or the list holds no drafts folder.
DraftsLookupFailed ==
  ev.tool = "update_draft" /\
    (ev.failed = "c" \/ ev.rejected = "list" \/ ev.result = "no drafts folder")

BadReplyCall(r) == r.fn \in {"createDraft", "updateDraft"} /\ r.reply = "bad"

C39_ReturnedIdDesignatesDraft ==
  /\ ev.type = "return" /\ ev.fn \in {"createDraft", "updateDraft"} /\ ev.nApp = 1 =>
       ev.draft = [kind |-> "header", val |-> ev.new]
  /\ ev.tool = "update_draft" /\ ev.inDrafts = "yes" =>
       /\ ev.result # "Draft not found"
       /\ ev.old # 0 => ev.old = ev.id.val

\* ---------------------------------------------------- classifyImapError
\* The code and message attributes of the failures classified here: the
\* codes the classifier tests, two it does not, and none.
ClassifyCodes ==
  {"", "ECONNREFUSED", "ENOTFOUND", "ETIMEDOUT", "CONNECT_TIMEOUT",
   "ERR_TLS_CERT_ALTNAME_INVALID", "ECONNRESET", "NoConnection"}
ClassifyMessages ==
  {<<>>, <<"Command failed">>, <<"Certificate", "has expired">>,
   <<"TLS", "handshake failed">>, <<"Connection", "Timeout">>}

\* An Error with any combination of the attributes, or a thrown value that
\* is not an Error, which has no attributes and only its String() text.
FailureValues ==
  {Err(TRUE, a, c, m) : a \in BOOLEAN, c \in ClassifyCodes, m \in ClassifyMessages}
    \cup {Err(FALSE, FALSE, "", m) : m \in ClassifyMessages}

InitClassify ==
  /\ InitImap(InitFolderList, InitMbox)
  /\ lim = [sessions |-> 0, calls |-> 0, paths |-> {}, fns |-> [p \in Procs |-> {}]]
  /\ codec = NoCodec /\ listing = NoListing /\ finding = NoFinding
  /\ \E e \in FailureValues :
       classified = [op |-> "thrown", error |-> e, result |-> NoError]

\* classifyImapError(error, config)
Classify ==
  /\ classified.op = "thrown"
  /\ classified' = [classified EXCEPT !.op = "classified",
                                      !.result = classifyImapError(classified.error)]
  /\ UNCHANGED <<client, sst, lockHolder, selected, folderList, mbox, uidNext, removed,
                 taken, calls, lim, proc, ev, codec, listing, finding>>

SpecClassify == InitClassify /\ [][Classify]_vars

\* The six classes and the message of each; the unclassified one is a prefix.
Classes == {"authentication", "refused", "unresolved", "timeout", "tls", "unclassified"}

InClass(c, r, e) ==
  CASE c = "authentication" -> r.message = <<"IMAP authentication failed">>
    [] c = "refused" -> r.message = <<"Cannot reach IMAP server">>
    [] c = "unresolved" -> r.message = <<"Cannot resolve IMAP server hostname">>
    [] c = "timeout" -> r.message = <<"Connection to IMAP server timed out">>
    [] c = "tls" -> r.message = <<"TLS/SSL error connecting to IMAP server">>
    [] c = "unclassified" -> r.message = <<"IMAP error:">> \o e.message

\* The tests of the classes, each on its own.
ClassTest(c, e) ==
  CASE c = "authentication" -> e.isError /\ e.authenticationFailed
    [] c = "refused" -> e.isError /\ e.code = "ECONNREFUSED"
    [] c = "unresolved" -> e.isError /\ e.code = "ENOTFOUND"
    [] c = "timeout" -> e.isError /\ e.code \in {"ETIMEDOUT", "CONNECT_TIMEOUT"}
    [] c = "tls" -> e.isError /\ (StartsWithErrTls(e.code) \/ TestI({"tls", "certificate"}, e.message))
    [] c = "unclassified" -> TRUE

ClassOrder == <<"authentication", "refused", "unresolved", "timeout", "tls", "unclassified">>

\* Claim C40: classifyImapError answers every failure with a plain Error of
\* exactly one of the six classes, the first in the order authentication
\* flag, ECONNREFUSED, ENOTFOUND, ETIMEDOUT or CONNECT_TIMEOUT, TLS code or
\* tls/certificate text, unclassified, whose test the failure passes; each
\* class has its one fixed message and an unclassified failure the original
\* message after "IMAP error:".
C40_ClassifyFirstMatch ==
  classified.op = "classified" =>
    LET e == classified.error
        r == classified.result
        first == CHOOSE i \in 1..Len(ClassOrder) :
                   /\ ClassTest(ClassOrder[i], e)
                   /\ \A j \in 1..(i - 1) : ~ClassTest(ClassOrder[j], e)
    IN /\ r.isError /\ ~r.authenticationFailed /\ r.code = ""
       /\ \A c \in Classes : InClass(c, r, e) <=> c = ClassOrder[first]

\* A refused connection whose text speaks of a certificate was classified
\* by its code.
C40_Witness ==
  /\ classified.op = "classified"
  /\ classified.error.code = "ECONNREFUSED"
  /\ ~classified.error.authenticationFailed
  /\ TestI({"tls", "certificate"}, classified.error.message)
  /\ classified.result.message = <<"Cannot reach IMAP server">>

====
